---- MODULE Spec2Model ----
(***************************************************************************)
(* Fleet maintenance backend (src/backend): the booking scheduler of the   *)
(* PlannerAgent, the telemetry pipeline of the AgentCoordinator and the    *)
(* anomaly analyzer of the HealthMonitorAgent.                             *)
(*                                                                         *)
(* Time is counted in minutes since midnight of day 0 (UTC).  Metric       *)
(* values, thresholds and severity scores are counted in tenths (70.0 is   *)
(* 700, severity 0.6 is 6) so that every comparison of the code is an      *)
(* integer comparison.  A workshop rating is counted in tenths as well.    *)
(***************************************************************************)
EXTENDS Integers, Sequences, FiniteSets, TLC

VARIABLES
    now,        \* datetime.utcnow(), in minutes
    bookings,   \* the bookings table: a sequence of rows, the id is the index
    task,       \* the _schedule_booking calls in flight, one record per caller
    workshop_table,     \* the workshops table, in the order of the store
    reading,    \* the telemetry dict handed to the analyzer
    verdict,    \* what the analyzer returned for it
    flow,       \* the process_vehicle_telemetry call: where it is, what it holds
    parked,     \* a second call, suspended at an await while flow runs
    agent_actions,      \* the agent_actions table (the audit rows)
    vehicle_telemetry,  \* the vehicle_telemetry table
    vehicle_status,     \* the status column of the vehicles table
    notifications,      \* the notifications table
    faulty,     \* the agents whose process raises
    loops       \* running and _task of the coordinator and of each agent

schedVars == <<now, bookings, task, workshop_table>>
analyzerVars == <<reading, verdict>>
pipeVars == <<flow, parked, agent_actions, vehicle_telemetry, vehicle_status,
              notifications, faulty, loops>>
vars == <<now, bookings, task, workshop_table, reading, verdict,
          flow, parked, agent_actions, vehicle_telemetry, vehicle_status,
          notifications, faulty, loops>>

\* a slot search that found nothing returns None
NoSlot == 0 - 1
\* best_slot = None
NoBest == [found |-> FALSE]

(***************************************************************************)
(* Bounds of the model.                                                    *)
(***************************************************************************)
MaxBookings == 2        \* rows of the bookings table
MaxTasks == 2           \* concurrent _schedule_booking calls
MaxTicks == 1           \* advances of the clock
StartClock == 450       \* the clock at start-up (07:30 of day 0)
TickMinutes == 450      \* one advance of the clock (to 15:00 of day 0)

TaskIds == 1..MaxTasks

(***************************************************************************)
(* Calendar arithmetic.                                                    *)
(***************************************************************************)
MinutesPerHour == 60
MinutesPerDay == 1440
HorizonDays == 30
OpenHour == 8
CloseHour == 18
DefaultDuration == 120

\* current_time.replace(minute=0, ...) + timedelta(hours=1) when minute > 0
RoundToNextHour(t) ==
    IF t % MinutesPerHour > 0
    THEN ((t \div MinutesPerHour) + 1) * MinutesPerHour
    ELSE t

\* (current_time + timedelta(days=d)).replace(hour=h, minute=0, ...)
DayAtHour(t, d, h) ==
    ((t \div MinutesPerDay) + d) * MinutesPerDay + h * MinutesPerHour

(***************************************************************************)
(* Static configuration: the workshops of the store and the planner's      *)
(* tables.  The workshops table is empty until the sample data is loaded;  *)
(* Workshops is its content afterwards (the first two sample rows).        *)
(***************************************************************************)
Workshops == <<
    [workshop_id |-> "ws_001", rating |-> 45,
     specialties |-> {"battery_service", "motor_service", "general"}],
    [workshop_id |-> "ws_002", rating |-> 48,
     specialties |-> {"battery_service", "cooling_service", "diagnostics"}] >>

WorkshopIds == {Workshops[i].workshop_id : i \in 1..Len(Workshops)}

Vehicles == {1, 2}
UnknownVehicle == 9

Statuses == {"scheduled", "confirmed", "in_progress", "completed", "cancelled"}
Priorities == {"critical", "high", "normal", "low"}

\* booking_priorities[priority]["max_delay_hours"], .get(priority, normal)
MaxDelayHours(priority) ==
    CASE priority = "critical" -> 24
      [] priority = "high" -> 72
      [] priority = "normal" -> 168
      [] priority = "low" -> 336
      [] OTHER -> 168

\* _estimate_service_duration: duration_mapping.get(service_type, 120)
EstimateServiceDuration(service_type) ==
    CASE service_type = "inspection" -> 60
      [] service_type = "preventive" -> 120
      [] service_type = "corrective" -> 180
      [] service_type = "emergency" -> 240
      [] service_type = "battery_service" -> 90
      [] service_type = "motor_service" -> 150
      [] service_type = "cooling_service" -> 120
      [] service_type = "general" -> 120
      [] OTHER -> DefaultDuration

\* booking.estimated_duration or 120
EffectiveDuration(b) ==
    IF b.estimated_duration = 0 THEN DefaultDuration ELSE b.estimated_duration

BookingEnd(b) == b.booking_slot + EffectiveDuration(b)

(***************************************************************************)
(* HealthMonitorAgent: thresholds, _check_metric_anomaly and               *)
(* _detect_anomalies.  Values are in tenths.                               *)
(***************************************************************************)
\* a metric the reading carries with the value None
NoValue == 0 - 1
\* anomaly_thresholds.get(...) found nothing (None is as falsy as 0.0)
NoThreshold == 0
NoVerdict == [kind |-> "none"]
NoAnomaly == [severity |-> "none"]

\* the fields of a telemetry dict, in their order
MetricOrder == << "battery_soh", "battery_soc", "charge_cycles", "voltage_imbalance",
                  "battery_temp", "motor_rpm", "motor_efficiency", "motor_temp",
                  "coolant_temp", "coolant_level" >>

\* anomaly_thresholds.get(f"{metric}_critical")
CriticalThreshold(metric) ==
    CASE metric = "battery_soh" -> 700
      [] metric = "battery_temp" -> 450
      [] metric = "voltage_imbalance" -> 5
      [] metric = "motor_temp" -> 850
      [] metric = "coolant_temp" -> 950
      [] metric = "coolant_level" -> 200
      [] metric = "motor_efficiency" -> 750
      [] OTHER -> NoThreshold

\* anomaly_thresholds.get(f"{metric}_warning")
WarningThreshold(metric) ==
    CASE metric = "battery_soh" -> 800
      [] metric = "battery_temp" -> 400
      [] metric = "voltage_imbalance" -> 3
      [] metric = "motor_temp" -> 750
      [] metric = "coolant_temp" -> 850
      [] metric = "coolant_level" -> 300
      [] metric = "motor_efficiency" -> 800
      [] OTHER -> NoThreshold

LowerIsWorse == {"battery_soh", "motor_efficiency", "coolant_level"}

CriticalScore == 10
WarningScore == 6

Anomaly(metric, value, threshold, severity, score) ==
    [metric |-> metric, value |-> value, threshold |-> threshold,
     severity |-> severity, severity_score |-> score]

\* the comparisons of _check_metric_anomaly made inclusive
CheckMetricAnomalyInclusive(metric, value) ==
    LET critical_threshold == CriticalThreshold(metric)
        warning_threshold == WarningThreshold(metric)
    IN  IF critical_threshold = NoThreshold /\ warning_threshold = NoThreshold
        THEN NoAnomaly
        ELSE IF metric \in LowerIsWorse
        THEN IF critical_threshold # NoThreshold /\ value <= critical_threshold
             THEN Anomaly(metric, value, critical_threshold, "critical", CriticalScore)
             ELSE IF warning_threshold # NoThreshold /\ value <= warning_threshold
             THEN Anomaly(metric, value, warning_threshold, "warning", WarningScore)
             ELSE NoAnomaly
        ELSE IF critical_threshold # NoThreshold /\ value >= critical_threshold
             THEN Anomaly(metric, value, critical_threshold, "critical", CriticalScore)
             ELSE IF warning_threshold # NoThreshold /\ value >= warning_threshold
             THEN Anomaly(metric, value, warning_threshold, "warning", WarningScore)
             ELSE NoAnomaly

\* the scores of the two tiers exchanged
CheckMetricAnomalySwapped(metric, value) ==
    LET critical_threshold == CriticalThreshold(metric)
        warning_threshold == WarningThreshold(metric)
    IN  IF critical_threshold = NoThreshold /\ warning_threshold = NoThreshold
        THEN NoAnomaly
        ELSE IF metric \in LowerIsWorse
        THEN IF critical_threshold # NoThreshold /\ value < critical_threshold
             THEN Anomaly(metric, value, critical_threshold, "critical", WarningScore)
             ELSE IF warning_threshold # NoThreshold /\ value < warning_threshold
             THEN Anomaly(metric, value, warning_threshold, "warning", CriticalScore)
             ELSE NoAnomaly
        ELSE IF critical_threshold # NoThreshold /\ value > critical_threshold
             THEN Anomaly(metric, value, critical_threshold, "critical", WarningScore)
             ELSE IF warning_threshold # NoThreshold /\ value > warning_threshold
             THEN Anomaly(metric, value, warning_threshold, "warning", CriticalScore)
             ELSE NoAnomaly

\* every metric compared as if higher values were worse
CheckMetricAnomalyUndirected(metric, value) ==
    LET critical_threshold == CriticalThreshold(metric)
        warning_threshold == WarningThreshold(metric)
    IN  IF critical_threshold = NoThreshold /\ warning_threshold = NoThreshold
        THEN NoAnomaly
        ELSE IF critical_threshold # NoThreshold /\ value > critical_threshold
             THEN Anomaly(metric, value, critical_threshold, "critical", CriticalScore)
             ELSE IF warning_threshold # NoThreshold /\ value > warning_threshold
             THEN Anomaly(metric, value, warning_threshold, "warning", WarningScore)
             ELSE NoAnomaly

\* _check_metric_anomaly: strict comparisons, by the direction of the metric
CheckMetricAnomaly(metric, value) ==
    LET critical_threshold == CriticalThreshold(metric)
        warning_threshold == WarningThreshold(metric)
    IN  IF critical_threshold = NoThreshold /\ warning_threshold = NoThreshold
        THEN NoAnomaly
        ELSE IF metric \in LowerIsWorse
        THEN IF critical_threshold # NoThreshold /\ value < critical_threshold
             THEN Anomaly(metric, value, critical_threshold, "critical", CriticalScore)
             ELSE IF warning_threshold # NoThreshold /\ value < warning_threshold
             THEN Anomaly(metric, value, warning_threshold, "warning", WarningScore)
             ELSE NoAnomaly
        ELSE IF critical_threshold # NoThreshold /\ value > critical_threshold
             THEN Anomaly(metric, value, critical_threshold, "critical", CriticalScore)
             ELSE IF warning_threshold # NoThreshold /\ value > warning_threshold
             THEN Anomaly(metric, value, warning_threshold, "warning", WarningScore)
             ELSE NoAnomaly

Max(S) == CHOOSE x \in S : \A y \in S : x >= y

\* the first score instead of the greatest
OverallSeverityFirst(severity_scores) ==
    IF Len(severity_scores) > 0 THEN severity_scores[1] ELSE 0

\* max(severity_scores) if severity_scores else 0.0
OverallSeverity(severity_scores) ==
    IF Len(severity_scores) > 0
    THEN Max({severity_scores[i] : i \in 1..Len(severity_scores)})
    ELSE 0

AttentionThreshold == 8

\* the loop over telemetry.items(): the metrics that are present, not None,
\* and for which _check_metric_anomaly returns an anomaly
Offending(telemetry) ==
    SelectSeq(MetricOrder,
              LAMBDA m : /\ m \in DOMAIN telemetry
                         /\ telemetry[m] # NoValue
                         /\ CheckMetricAnomaly(m, telemetry[m]) # NoAnomaly)

\* HealthMonitorAgent._detect_anomalies, called at time t
DetectAnomalies(telemetry, vehicle_id, t) ==
    LET offending == Offending(telemetry)
        anomalies == [i \in 1..Len(offending) |->
                        CheckMetricAnomaly(offending[i], telemetry[offending[i]])]
        severity_scores == [i \in 1..Len(anomalies) |-> anomalies[i].severity_score]
        overall_severity == OverallSeverity(severity_scores)
    IN  [kind |-> "anomaly_detection",
         vehicle_id |-> vehicle_id,
         anomalies_detected |-> Len(anomalies),
         anomalies |-> anomalies,
         overall_severity |-> overall_severity,
         requires_immediate_attention |-> overall_severity >= AttentionThreshold,
         timestamp |-> t]


(***************************************************************************)
(* PlannerAgent._find_next_available_slot                                  *)
(***************************************************************************)
BlockingStatuses == {"scheduled", "confirmed", "in_progress"}

\* the rows the query of _find_next_available_slot returns
ExistingBookings(bk, workshop_id, t) ==
    { i \in 1..Len(bk) :
        /\ bk[i].workshop_id = workshop_id
        /\ bk[i].booking_slot >= t
        /\ bk[i].status \in BlockingStatuses }

\* the overlap test with closed intervals: touching endpoints conflict
SlotConflictsClosed(slot_time, slot_end, b) ==
    slot_time <= BookingEnd(b) /\ slot_end >= b.booking_slot

\* the overlap test of the inner loop
SlotConflicts(slot_time, slot_end, b) ==
    slot_time < BookingEnd(b) /\ slot_end > b.booking_slot

HasConflict(bk, existing, slot_time, duration) ==
    \E i \in existing : SlotConflicts(slot_time, slot_time + duration, bk[i])

Min(S) == CHOOSE x \in S : \A y \in S : x <= y

\* the candidates of one day, in the order of the while loop:
\* slot_time = day_start; while slot_time < day_end: ...; slot_time += 1h
DaySlots(current_time, day_offset) ==
    { s \in { DayAtHour(current_time, day_offset, OpenHour) + k * MinutesPerHour :
                k \in 0..(CloseHour - OpenHour) } :
        s < DayAtHour(current_time, day_offset, CloseHour) }

FreeSlots(bk, existing, current_time, duration, day_offset) ==
    { s \in DaySlots(current_time, day_offset) :
        ~HasConflict(bk, existing, s, duration) }

RECURSIVE ScanSlots(_, _, _, _, _)
\* the day and hour loops return the first candidate without a conflict:
\* the earliest one of the first day that has one
ScanSlots(bk, existing, current_time, duration, day_offset) ==
    IF day_offset >= HorizonDays THEN NoSlot
    ELSE LET free == FreeSlots(bk, existing, current_time, duration, day_offset)
         IN  IF free # {} THEN Min(free)
             ELSE ScanSlots(bk, existing, current_time, duration, day_offset + 1)

FindNextAvailableSlot(bk, workshop_id, service_type, t) ==
    ScanSlots(bk, ExistingBookings(bk, workshop_id, t), RoundToNextHour(t),
              EstimateServiceDuration(service_type), 0)

(***************************************************************************)
(* PlannerAgent._find_suitable_workshops and _find_optimal_slot            *)
(***************************************************************************)
WildcardSpecialties == {"all", "general"}

Offers(w, service_type) ==
    service_type \in w.specialties \/ w.specialties \cap WildcardSpecialties # {}

\* the where clause left out: every row of the workshops table
FindSuitableWorkshopsAll(service_type) == workshop_table

\* the rows of the workshops table that match, in the order of the store
FindSuitableWorkshops(service_type) ==
    SelectSeq(workshop_table, LAMBDA w : Offers(w, service_type))

RatingWeight == 10

\* score = delay_hours - rating * 10, here times 600 (delay in minutes,
\* rating in tenths), which keeps the order of the scores
Score(delay_minutes, w) ==
    10 * delay_minutes - w.rating * RatingWeight * MinutesPerHour

\* the feasibility filter left out: no workshop is ever skipped
ExceedsDelayUnchecked(delay_minutes, priority) == FALSE

\* delay_hours > max_delay_hours: the workshop is skipped
ExceedsDelay(delay_minutes, priority) ==
    delay_minutes > MaxDelayHours(priority) * MinutesPerHour

\* every candidate replaces the best one so far
ImprovesAlways(score, best) == TRUE

\* a better candidate replaces the best one so far
Improves(score, best) ==
    ~best.found \/ score < best.score

\* what the loop sees for each workshop: its earliest slot, or NoSlot
SlotsSeen(bk, workshops, service_type, t) ==
    [i \in 1..Len(workshops) |->
        FindNextAvailableSlot(bk, workshops[i].workshop_id, service_type, t)]

RECURSIVE OptimalFrom(_, _, _, _, _, _, _)
\* the loop over the workshops of _find_optimal_slot, from index i on;
\* seen[i] is the slot_time of workshop i
OptimalFrom(workshops, seen, priority, service_type, t, i, best) ==
    IF i > Len(workshops) THEN best
    ELSE LET w == workshops[i]
             slot_time == seen[i]
             delay == slot_time - t
             candidate == [found |-> TRUE,
                           workshop_id |-> w.workshop_id,
                           slot_time |-> slot_time,
                           estimated_duration |-> EstimateServiceDuration(service_type),
                           score |-> Score(delay, w)]
         IN  IF slot_time = NoSlot
             THEN OptimalFrom(workshops, seen, priority, service_type, t, i + 1, best)
             ELSE IF ExceedsDelay(delay, priority)
             THEN OptimalFrom(workshops, seen, priority, service_type, t, i + 1, best)
             ELSE IF Improves(candidate.score, best)
             THEN OptimalFrom(workshops, seen, priority, service_type, t, i + 1, candidate)
             ELSE OptimalFrom(workshops, seen, priority, service_type, t, i + 1, best)

FindOptimalSlot(workshops, seen, priority, service_type, t) ==
    OptimalFrom(workshops, seen, priority, service_type, t, 1, NoBest)

(***************************************************************************)
(* PlannerAgent._schedule_booking: the search (up to the choice of the     *)
(* optimal slot) and the commit are separated by awaits, so other calls    *)
(* run between them.                                                       *)
(***************************************************************************)
IdleTask == [pc |-> "idle"]

RequestServiceTypes == {"inspection", "battery_service"}

RequestPriorities == {"critical", "low"}

Requests ==
    [vehicle_id : {1}, service_type : RequestServiceTypes,
     priority : RequestPriorities]
    \cup {[vehicle_id |-> UnknownVehicle, service_type |-> "inspection",
           priority |-> "critical"]}

\* the row is created already confirmed
NewBookingConfirmed(req, optimal_slot) ==
    [vehicle_id |-> req.vehicle_id,
     workshop_id |-> optimal_slot.workshop_id,
     booking_slot |-> optimal_slot.slot_time,
     service_type |-> req.service_type,
     estimated_duration |-> optimal_slot.estimated_duration,
     priority |-> req.priority,
     status |-> "confirmed"]

\* Booking(...) as _schedule_booking builds it
NewBooking(req, optimal_slot) ==
    [vehicle_id |-> req.vehicle_id,
     workshop_id |-> optimal_slot.workshop_id,
     booking_slot |-> optimal_slot.slot_time,
     service_type |-> req.service_type,
     estimated_duration |-> optimal_slot.estimated_duration,
     priority |-> req.priority,
     status |-> "scheduled"]

\* the dict returned when no workshop offers the service
NoWorkshopsResult ==
    [error |-> "No available workshops found",
     recommendations |-> <<"Try extending search radius",
                           "Consider alternative service types">>]

\* the count of the workshops looked at is left out
NoSlotsResultUncounted(workshops) ==
    [error |-> "No available slots found"]

\* the dict returned when no workshop has a slot within the delay bound
NoSlotsResult(workshops) ==
    [error |-> "No available slots found",
     workshops_checked |-> Len(workshops)]

\* the outcome of the search part of _schedule_booking
SearchOutcome(bk, req, t) ==
    LET workshops == FindSuitableWorkshops(req.service_type)
        seen == SlotsSeen(bk, workshops, req.service_type, t)
        optimal_slot == FindOptimalSlot(workshops, seen, req.priority, req.service_type, t)
        call == [req |-> req, decided_at |-> t, rows_seen |-> Len(bk)]
    IN  IF req.vehicle_id \notin Vehicles
        THEN [pc |-> "done", call |-> call, seen |-> <<>>,
              result |-> [error |-> "Vehicle not found"]]
        ELSE IF Len(workshops) = 0
        THEN [pc |-> "done", call |-> call, seen |-> <<>>,
              result |-> NoWorkshopsResult]
        ELSE IF ~optimal_slot.found
        THEN [pc |-> "done", call |-> call, seen |-> seen,
              result |-> NoSlotsResult(workshops)]
        ELSE [pc |-> "commit", call |-> call, seen |-> seen,
              optimal_slot |-> optimal_slot]

\* rows of the table once every call that is about to commit has committed
RowsClaimed == Len(bookings) + Cardinality({u \in TaskIds : task[u].pc = "commit"})

ScheduleSearch(t, req) ==
    LET outcome == SearchOutcome(bookings, req, now)
    IN  /\ task[t].pc = "idle"
        /\ outcome.pc = "commit" => RowsClaimed < MaxBookings
        /\ task' = [task EXCEPT ![t] = outcome]
        /\ UNCHANGED <<now, bookings, analyzerVars, pipeVars, workshop_table>>

\* session.add(booking); commit; refresh; return the booking
ScheduleCommit(t) ==
    /\ task[t].pc = "commit"
    /\ bookings' = Append(bookings, NewBooking(task[t].call.req, task[t].optimal_slot))
    /\ task' = [task EXCEPT ![t] =
                  [pc |-> "done", call |-> task[t].call, seen |-> task[t].seen,
                   result |-> [booking_id |-> Len(bookings) + 1,
                               workshop_id |-> task[t].optimal_slot.workshop_id,
                               booking_slot |-> task[t].optimal_slot.slot_time,
                               estimated_duration |-> task[t].optimal_slot.estimated_duration,
                               priority |-> task[t].call.req.priority,
                               status |-> "scheduled"]]]
    /\ UNCHANGED <<now, analyzerVars, pipeVars, workshop_table>>

\* the caller has its result and calls again later
ScheduleReturn(t) ==
    /\ task[t].pc = "done"
    /\ task' = [task EXCEPT ![t] = IdleTask]
    /\ UNCHANGED <<now, bookings, analyzerVars, pipeVars, workshop_table>>

(***************************************************************************)
(* PlannerAgent._update_booking and _cancel_booking                        *)
(***************************************************************************)
AllowedUpdates == {"booking_slot", "service_type", "priority", "status",
                   "estimated_duration", "predicted_issue", "confidence_score"}

\* setattr for every field of the update that the row has, allowed or not
ApplyUpdatesAny(b, updates) ==
    [f \in DOMAIN b |-> IF f \in DOMAIN updates THEN updates[f] ELSE b[f]]

\* setattr for every field of the update that is allowed and that the row has
ApplyUpdates(b, updates) ==
    [f \in DOMAIN b |->
        IF f \in DOMAIN updates /\ f \in AllowedUpdates THEN updates[f] ELSE b[f]]

UpdateSlots == {DayAtHour(0, 0, OpenHour), DayAtHour(0, 0, OpenHour + 1)}
UpdateDurations == {2 * MinutesPerDay, 15 * MinutesPerDay}

DurationUpdates == {[estimated_duration |-> d] : d \in UpdateDurations}
UpdateInputs == {[booking_slot |-> s] : s \in UpdateSlots} \cup DurationUpdates

UpdateBooking(booking_id, updates) ==
    /\ booking_id \in 1..Len(bookings)
    /\ bookings' = [bookings EXCEPT ![booking_id] = ApplyUpdates(@, updates)]
    /\ UNCHANGED <<now, task, analyzerVars, pipeVars, workshop_table>>

CancelBooking(booking_id) ==
    /\ booking_id \in 1..Len(bookings)
    /\ bookings[booking_id].status \notin {"completed", "cancelled"}
    /\ bookings' = [bookings EXCEPT ![booking_id].status = "cancelled"]
    /\ UNCHANGED <<now, task, analyzerVars, pipeVars, workshop_table>>

\* the wall clock advances
Tick ==
    /\ now + TickMinutes <= StartClock + MaxTicks * TickMinutes
    /\ now' = now + TickMinutes
    /\ UNCHANGED <<bookings, task, analyzerVars, pipeVars, workshop_table>>

(***************************************************************************)
(* The agents behind the coordinator.  Every agent's process picks its     *)
(* handler from the "action" entry of the data it is handed, and falls     *)
(* back to a default of its own when the data has no such entry.           *)
(***************************************************************************)
Agents == {"health_monitor", "planner", "communicator", "logger"}

\* d.get(k, default)
Get(d, k, default) == IF k \in DOMAIN d THEN d[k] ELSE default

\* the second argument of data.get("action", ...) in each agent's process
DefaultAction(agent) ==
    CASE agent = "health_monitor" -> "health_check"
      [] agent = "logger" -> "log_telemetry"
      [] agent = "planner" -> "schedule_booking"
      [] agent = "communicator" -> "send_notification"

\* the action names each process has a branch for
KnownActions(agent) ==
    CASE agent = "health_monitor" ->
            {"health_check", "anomaly_detection", "predictive_analysis"}
      [] agent = "logger" ->
            {"log_telemetry", "log_service_event", "update_vehicle_status",
             "archive_old_data", "generate_history_report", "audit_trail"}
      [] agent = "planner" ->
            {"schedule_booking", "update_booking", "cancel_booking",
             "find_workshops", "optimize_schedule"}
      [] agent = "communicator" ->
            {"send_notification", "send_alert", "send_booking_confirmation",
             "send_report", "broadcast_message"}

\* action_type = data.get("action", <default>)
ActionOf(agent, data) == Get(data, "action", DefaultAction(agent))

\* the tables a handler reads and writes
Db == [bookings |-> bookings,
       vehicle_telemetry |-> vehicle_telemetry,
       vehicle_status |-> vehicle_status,
       notifications |-> notifications]

Returned(result, db) == [raised |-> FALSE, result |-> result, db |-> db]
Raised(error) == [raised |-> TRUE, error |-> error]

\* the columns of a vehicle_telemetry row: telemetry_data.get(<column>)
TelemetryRow(vehicle_id, telemetry_data) ==
    [vehicle_id |-> vehicle_id,
     metrics |-> [m \in {MetricOrder[i] : i \in 1..Len(MetricOrder)} |->
                    Get(telemetry_data, m, NoValue)]]

\* LoggerAgent._log_telemetry_data
LogTelemetryData(data, db) ==
    LET vehicle_id == Get(data, "vehicle_id", UnknownVehicle)
        telemetry_data == Get(data, "telemetry", <<>>)
    IN  IF vehicle_id \notin Vehicles
        THEN Returned([error |-> "Vehicle not found"], db)
        ELSE Returned(
               [telemetry_id |-> Len(db.vehicle_telemetry) + 1,
                vehicle_id |-> vehicle_id,
                data_points_logged |->
                    Cardinality({m \in DOMAIN telemetry_data :
                                    telemetry_data[m] # NoValue})],
               [db EXCEPT !.vehicle_telemetry =
                              Append(@, TelemetryRow(vehicle_id, telemetry_data))])

\* HealthMonitorAgent._get_metric_status
GetMetricStatus(metric, value) ==
    LET critical_threshold == CriticalThreshold(metric)
        warning_threshold == WarningThreshold(metric)
    IN  IF critical_threshold = NoThreshold /\ warning_threshold = NoThreshold
        THEN "unknown"
        ELSE IF metric \in {"battery_soh", "motor_efficiency", "coolant_level"}
        THEN IF critical_threshold # NoThreshold /\ value < critical_threshold
             THEN "critical"
             ELSE IF warning_threshold # NoThreshold /\ value < warning_threshold
             THEN "warning"
             ELSE "good"
        ELSE IF critical_threshold # NoThreshold /\ value > critical_threshold
             THEN "critical"
             ELSE IF warning_threshold # NoThreshold /\ value > warning_threshold
             THEN "warning"
             ELSE "good"

\* the four columns _analyze_health_metrics looks at
HealthMetrics == {"battery_soh", "battery_temp", "motor_efficiency", "coolant_level"}

\* HealthMonitorAgent._analyze_health_metrics: the status of each column
\* that is not None
AnalyzeHealthMetrics(telemetry) ==
    [m \in {m \in HealthMetrics : telemetry.metrics[m] # NoValue} |->
        GetMetricStatus(m, telemetry.metrics[m])]

\* HealthMonitorAgent._determine_vehicle_status
DetermineVehicleStatus(health_metrics) ==
    LET statuses == {health_metrics[m] : m \in DOMAIN health_metrics}
    IN  IF "critical" \in statuses THEN "critical"
        ELSE IF "warning" \in statuses THEN "warning"
        ELSE "operational"

\* the newest row of the table, whatever its vehicle
LatestTelemetryAny(rows, vehicle_id) == Len(rows)

\* HealthMonitorAgent._get_latest_telemetry: the index of the newest row of
\* the vehicle, 0 when it has none
LatestTelemetry(rows, vehicle_id) ==
    LET mine == {i \in 1..Len(rows) : rows[i].vehicle_id = vehicle_id}
    IN  IF mine = {} THEN 0 ELSE Max(mine)

\* HealthMonitorAgent._perform_health_check
PerformHealthCheck(vehicle_id, db) ==
    LET latest == LatestTelemetry(db.vehicle_telemetry, vehicle_id)
        health_status == AnalyzeHealthMetrics(db.vehicle_telemetry[latest])
        status == DetermineVehicleStatus(health_status)
    IN  IF vehicle_id \notin Vehicles
        THEN Returned([error |-> "Vehicle not found"], db)
        ELSE IF latest = 0
        THEN Returned([error |-> "No telemetry data available"], db)
        ELSE Returned([vehicle_id |-> vehicle_id,
                       status |-> status,
                       health_metrics |-> health_status],
                      [db EXCEPT !.vehicle_status[vehicle_id] = status])

\* HealthMonitorAgent._get_historical_telemetry: the rows of the vehicle,
\* order_by(timestamp.desc()), newest first.  Rows are appended in the order
\* of their timestamps, and every row is younger than the cutoff: the clock
\* advances by hours, the cutoff is days back.
GetHistoricalTelemetry(rows, vehicle_id) ==
    LET mine == SelectSeq(rows, LAMBDA r : r.vehicle_id = vehicle_id)
    IN  [i \in 1..Len(mine) |-> mine[Len(mine) + 1 - i]]

RECURSIVE SumSeq(_)
SumSeq(q) == IF Len(q) = 0 THEN 0 ELSE Head(q) + SumSeq(Tail(q))

Abs(n) == IF n < 0 THEN 0 - n ELSE n

StableSlope == 1        \* abs(slope) < 0.1, in tenths per reading

\* HealthMonitorAgent._calculate_trend: the direction of the least-squares
\* line through (0, values[0]), (1, values[1]), ...  Its slope is
\* slope_num / slope_den, in tenths per reading.
CalculateTrend(values) ==
    LET n == Len(values)
        x == [i \in 1..n |-> i - 1]
        slope_num == n * SumSeq([i \in 1..n |-> x[i] * values[i]])
                        - SumSeq(x) * SumSeq(values)
        slope_den == n * SumSeq([i \in 1..n |-> x[i] * x[i]]) - SumSeq(x) * SumSeq(x)
    IN  IF n < 2 THEN [direction |-> "stable"]
        ELSE IF Abs(slope_num) < StableSlope * slope_den THEN [direction |-> "stable"]
        ELSE IF slope_num > 0 THEN [direction |-> "improving"]
        ELSE [direction |-> "declining"]

MinTrendRows == 3

\* HealthMonitorAgent._analyze_trends
AnalyzeTrends(rows, vehicle_id) ==
    LET historical_data == GetHistoricalTelemetry(rows, vehicle_id)
        with_soh == SelectSeq(historical_data,
                              LAMBDA t : t.metrics["battery_soh"] # NoValue)
        battery_soh_values == [i \in 1..Len(with_soh) |->
                                  with_soh[i].metrics["battery_soh"]]
    IN  IF Len(historical_data) < MinTrendRows
        THEN [error |-> "Insufficient data for trend analysis"]
        ELSE IF Len(battery_soh_values) >= MinTrendRows
        THEN [battery_soh |-> CalculateTrend(battery_soh_values)]
        ELSE <<>>

\* PlannerAgent._schedule_booking, from the lookup of the vehicle to the
\* commit of the row
ScheduleBooking(data, db, t) ==
    LET req == [vehicle_id |-> Get(data, "vehicle_id", UnknownVehicle),
                service_type |-> Get(data, "service_type", "maintenance"),
                priority |-> Get(data, "priority", "normal")]
        outcome == SearchOutcome(db.bookings, req, t)
    IN  IF outcome.pc = "done"
        THEN Returned(outcome.result, db)
        ELSE Returned([booking_id |-> Len(db.bookings) + 1,
                       workshop_id |-> outcome.optimal_slot.workshop_id,
                       booking_slot |-> outcome.optimal_slot.slot_time,
                       estimated_duration |-> outcome.optimal_slot.estimated_duration,
                       priority |-> req.priority,
                       status |-> "scheduled"],
                      [db EXCEPT !.bookings =
                                     Append(@, NewBooking(req, outcome.optimal_slot))])

\* CommunicatorAgent._send_notification
SendNotification(data, db) ==
    LET notification == [recipient_type |-> Get(data, "recipient_type", "fleet_manager"),
                         message_type |-> Get(data, "message_type", "info"),
                         severity |-> Get(data, "severity", "info")]
    IN  Returned([notification_id |-> Len(db.notifications) + 1,
                  message_type |-> notification.message_type,
                  severity |-> notification.severity],
                 [db EXCEPT !.notifications = Append(@, notification)])

\* <agent>.process(data): the handler is chosen by the data alone
AgentProcess(agent, data, db, t) ==
    LET action_type == ActionOf(agent, data)
    IN  IF action_type \notin KnownActions(agent)
        THEN Raised("Unknown action type")
        ELSE CASE action_type = "log_telemetry" -> LogTelemetryData(data, db)
               [] action_type = "health_check" ->
                    PerformHealthCheck(Get(data, "vehicle_id", UnknownVehicle), db)
               [] action_type = "anomaly_detection" ->
                    Returned(DetectAnomalies(Get(data, "telemetry", <<>>),
                                             Get(data, "vehicle_id", UnknownVehicle), t), db)
               [] action_type = "schedule_booking" -> ScheduleBooking(data, db, t)
               [] action_type = "send_notification" -> SendNotification(data, db)

(***************************************************************************)
(* AgentCoordinator.process_vehicle_telemetry.  Each stage is one call of  *)
(* BaseAgent.execute_with_logging: an audit row is written, the agent's    *)
(* process runs, and the row is closed with the result or with the error.  *)
(* The coordinator hands execute_with_logging an action_type, which goes   *)
(* into the audit row, and a data dict, which goes to process.             *)
(***************************************************************************)
MaxEvents == 2          \* telemetry events handed to the coordinator

HighSeverity == 6
CriticalSeverity == 8

IdleFlow == [pc |-> "idle", events |-> 0]

\* the result of a stage is not kept
PutDropped(results, key, result) == results

\* workflow_results[key] = result
Put(results, key, result) ==
    [k \in DOMAIN results \cup {key} |-> IF k = key THEN result ELSE results[k]]

\* the first anomaly's message, here the metric it is about
PredictedIssue(health_result) ==
    LET anomalies == Get(health_result, "anomalies", <<>>)
    IN  IF Len(anomalies) > 0 THEN anomalies[1].metric ELSE ""

\* the next execute_with_logging call of process_vehicle_telemetry, given
\* the results it holds so far, or the return statement
StageCall(vehicle_id, telemetry_data, results) ==
    LET health_result == results["health_monitoring"]
        severity == Get(health_result, "overall_severity", 0)
        priority == IF severity >= CriticalSeverity THEN "critical"
                    ELSE IF severity >= HighSeverity THEN "high"
                    ELSE "normal"
        booking_result == results["booking"]
    IN  IF "logging" \notin DOMAIN results
        THEN [stage |-> "logging", agent |-> "logger",
              action_type |-> "log_telemetry",
              data |-> [vehicle_id |-> vehicle_id, telemetry |-> telemetry_data]]
        ELSE IF "health_monitoring" \notin DOMAIN results
        THEN [stage |-> "health_monitoring", agent |-> "health_monitor",
              action_type |-> "anomaly_detection",
              data |-> [vehicle_id |-> vehicle_id, telemetry |-> telemetry_data]]
        ELSE IF Get(health_result, "anomalies_detected", 0) > 0 /\ severity >= HighSeverity
        THEN IF "alert_communication" \in DOMAIN results
             THEN [stage |-> "return"]
             ELSE IF "booking" \notin DOMAIN results
             THEN [stage |-> "booking", agent |-> "planner",
                   action_type |-> "schedule_booking",
                   data |-> [vehicle_id |-> vehicle_id,
                             service_type |-> "corrective",
                             priority |-> priority,
                             predicted_issue |-> PredictedIssue(health_result)]]
             ELSE IF /\ "booking_id" \in DOMAIN booking_result
                     /\ "booking_communication" \notin DOMAIN results
             THEN [stage |-> "booking_communication", agent |-> "communicator",
                   action_type |-> "send_booking_confirmation",
                   data |-> [booking_id |-> booking_result.booking_id]]
             ELSE [stage |-> "alert_communication", agent |-> "communicator",
                   action_type |-> "send_alert",
                   data |-> [vehicle_id |-> vehicle_id,
                             alert_type |-> "anomaly_detected",
                             severity |-> IF severity >= CriticalSeverity
                                          THEN "critical" ELSE "warning"]]
        ELSE [stage |-> "return"]

\* the dict returned when every stage returned
CompletedResult(vehicle_id, steps, results) ==
    [vehicle_id |-> vehicle_id,
     workflow_completed |-> TRUE,
     steps_executed |-> steps,
     results |-> results]

\* the except branch without the results gathered so far
FailedResultBare(vehicle_id, error, results) ==
    [vehicle_id |-> vehicle_id,
     workflow_completed |-> FALSE,
     error |-> error]

\* the except branch reporting the event as completed
FailedResultCompleted(vehicle_id, error, results) ==
    [vehicle_id |-> vehicle_id,
     workflow_completed |-> TRUE,
     steps_executed |-> <<>>,
     results |-> results,
     error |-> error,
     partial_results |-> results]

\* the dict returned by the except branch
FailedResult(vehicle_id, error, results) ==
    [vehicle_id |-> vehicle_id,
     workflow_completed |-> FALSE,
     error |-> error,
     partial_results |-> results]

\* the name each agent passes to BaseAgent.__init__
AgentName(agent) ==
    CASE agent = "logger" -> "Logger"
      [] agent = "health_monitor" -> "HealthMonitor"
      [] agent = "planner" -> "Planner"
      [] agent = "communicator" -> "Communicator"

\* log_action(action_type, vehicle_id, input_data, status="processing"): the
\* new row of agent_actions
ProcessingRow(agent, action_type, vehicle_id, data) ==
    [agent_name |-> AgentName(agent),
     action_type |-> action_type,
     vehicle_id |-> vehicle_id,
     input_data |-> data,
     status |-> "processing"]

\* the row when process has returned
CompletedRow(row, result, processing_time) ==
    [agent_name |-> row.agent_name,
     action_type |-> row.action_type,
     vehicle_id |-> row.vehicle_id,
     input_data |-> row.input_data,
     status |-> "completed",
     output_data |-> result,
     processing_time |-> processing_time]

\* the row of a call that raised is not touched
FailedRowLeftOpen(row, error, processing_time) == row

\* the row when process has raised
FailedRow(row, error, processing_time) ==
    [agent_name |-> row.agent_name,
     action_type |-> row.action_type,
     vehicle_id |-> row.vehicle_id,
     input_data |-> row.input_data,
     status |-> "failed",
     error_message |-> error,
     processing_time |-> processing_time]

\* the coordinator is handed an event
ProcessVehicleTelemetry(vehicle_id, telemetry_data) ==
    /\ flow.pc \in {"idle", "returned"}
    /\ flow.events < MaxEvents
    /\ flow' = [pc |-> "call", events |-> flow.events + 1,
                vehicle_id |-> vehicle_id, telemetry |-> telemetry_data,
                steps |-> <<>>, results |-> <<>>, action_id |-> 0,
                start_time |-> now,
                started |-> <<>>, finished |-> <<>>]
    /\ UNCHANGED <<schedVars, analyzerVars, parked, loops, agent_actions, vehicle_telemetry,
                   vehicle_status, notifications, faulty>>

\* execute_with_logging up to the end of log_action: the audit row
LogAction ==
    /\ flow.pc = "call"
    /\ LET call == StageCall(flow.vehicle_id, flow.telemetry, flow.results)
       IN  /\ agent_actions' = Append(agent_actions,
                                      ProcessingRow(call.agent, call.action_type,
                                                    flow.vehicle_id, call.data))
           /\ flow' = [flow EXCEPT !.pc = "process",
                                   !.start_time = now,
                                   !.action_id = Len(agent_actions) + 1,
                                   !.started = Append(@, call.stage)]
    /\ UNCHANGED <<schedVars, analyzerVars, parked, loops, vehicle_telemetry, vehicle_status,
                   notifications, faulty>>

\* process returns: the row is completed, the result is stored under the
\* stage's key, and the coordinator goes on to its next call or returns
StageReturns ==
    /\ flow.pc = "process"
    /\ LET call == StageCall(flow.vehicle_id, flow.telemetry, flow.results)
           outcome == AgentProcess(call.agent, call.data, Db, now)
           results == Put(flow.results, call.stage, outcome.result)
           steps == Append(flow.steps, call.stage)
           next == StageCall(flow.vehicle_id, flow.telemetry, results)
       IN  /\ call.agent \notin faulty
           /\ ~outcome.raised
           /\ agent_actions' = [agent_actions EXCEPT ![flow.action_id] =
                                    CompletedRow(@, outcome.result,
                                                 now - flow.start_time)]
           /\ bookings' = outcome.db.bookings
           /\ vehicle_telemetry' = outcome.db.vehicle_telemetry
           /\ vehicle_status' = outcome.db.vehicle_status
           /\ notifications' = outcome.db.notifications
           /\ flow' = IF next.stage = "return"
                      THEN [pc |-> "returned", events |-> flow.events,
                            vehicle_id |-> flow.vehicle_id,
                            telemetry |-> flow.telemetry,
                            steps |-> steps, results |-> results,
                            action_id |-> flow.action_id,
                       start_time |-> flow.start_time,
                            started |-> flow.started,
                            finished |-> Append(flow.finished, call.stage),
                            out |-> CompletedResult(flow.vehicle_id, steps, results)]
                      ELSE [flow EXCEPT !.pc = "call", !.steps = steps,
                                        !.results = results,
                                        !.finished = Append(@, call.stage)]
    /\ UNCHANGED <<now, task, workshop_table, analyzerVars, parked, loops, faulty>>

\* process raises: the row is failed, execute_with_logging raises again and
\* the except branch of process_vehicle_telemetry returns
StageRaises ==
    /\ flow.pc = "process"
    /\ LET call == StageCall(flow.vehicle_id, flow.telemetry, flow.results)
           outcome == AgentProcess(call.agent, call.data, Db, now)
           error == IF call.agent \in faulty THEN "agent failure" ELSE outcome.error
       IN  /\ call.agent \in faulty \/ outcome.raised
           /\ agent_actions' = [agent_actions EXCEPT ![flow.action_id] =
                                    FailedRow(@, error, now - flow.start_time)]
           /\ flow' = [pc |-> "returned", events |-> flow.events,
                       vehicle_id |-> flow.vehicle_id,
                       telemetry |-> flow.telemetry,
                       steps |-> flow.steps, results |-> flow.results,
                       action_id |-> flow.action_id,
                       start_time |-> flow.start_time,
                       started |-> flow.started,
                       finished |-> flow.finished,
                       out |-> FailedResult(flow.vehicle_id, error, flow.results)]
    /\ UNCHANGED <<schedVars, analyzerVars, parked, loops, vehicle_telemetry, vehicle_status,
                   notifications, faulty>>

\* the store before and after the sample data is loaded
WorkshopTables == {<<>>, Workshops}

InitScheduler ==
    /\ now = StartClock
    /\ bookings = <<>>
    /\ workshop_table \in WorkshopTables
    /\ task = [t \in TaskIds |-> IdleTask]

InitAnalyzer ==
    /\ reading = <<>>
    /\ verdict = NoVerdict

\* the coordinator and its agents, each with running and _task; a loop
\* task is named by the number of the start call that created it
Units == Agents \cup {"coordinator"}

NoTask == 0

\* running = False and _task = None for every agent and the coordinator
IdleLoops ==
    [running |-> [u \in Units |-> FALSE],
     task |-> [u \in Units |-> NoTask],
     alive |-> [u \in Units |-> {}],
     starts |-> 0]

InitTables ==
    /\ flow = IdleFlow
    /\ parked = IdleFlow
    /\ loops = IdleLoops
    /\ agent_actions = <<>>
    /\ vehicle_telemetry = <<>>
    /\ vehicle_status = [v \in Vehicles |-> "operational"]
    /\ notifications = <<>>

InitPipeline ==
    /\ InitTables
    /\ faulty = {}

Init == InitScheduler /\ InitAnalyzer /\ InitPipeline

Next ==
    \/ \E t \in TaskIds, req \in Requests : ScheduleSearch(t, req)
    \/ \E t \in TaskIds : ScheduleCommit(t)
    \/ \E id \in 1..MaxBookings, u \in UpdateInputs : UpdateBooking(id, u)
    \/ \E id \in 1..MaxBookings : CancelBooking(id)
    \/ Tick

Spec == Init /\ [][Next]_vars

(***************************************************************************)
(* One caller scheduling again and again, for every priority tier, while   *)
(* bookings are stretched and the clock advances.                          *)
(***************************************************************************)
TierRequests ==
    {[vehicle_id |-> 1, service_type |-> "inspection", priority |-> "critical"],
     [vehicle_id |-> 1, service_type |-> "inspection", priority |-> "low"],
     [vehicle_id |-> 1, service_type |-> "battery_service", priority |-> "high"],
     [vehicle_id |-> 1, service_type |-> "battery_service", priority |-> "normal"]}

NextDelay ==
    \/ \E req \in TierRequests : ScheduleSearch(1, req)
    \/ ScheduleCommit(1)
    \/ ScheduleReturn(1)
    \/ \E id \in 1..MaxBookings, u \in DurationUpdates : UpdateBooking(id, u)
    \/ Tick

SpecDelay == Init /\ [][NextDelay]_vars

(***************************************************************************)
(* The life of a booking: one caller books, and bookings are updated,      *)
(* with any status an update may carry, and cancelled.                     *)
(***************************************************************************)
\* updates.status is a free string in the request; here the five statuses
StatusUpdates == {[status |-> st] : st \in Statuses}

LifecycleRequests ==
    {[vehicle_id |-> 1, service_type |-> "inspection", priority |-> "critical"]}

NextLifecycle ==
    \/ \E req \in LifecycleRequests : ScheduleSearch(1, req)
    \/ ScheduleCommit(1)
    \/ ScheduleReturn(1)
    \/ \E id \in 1..MaxBookings, u \in StatusUpdates : UpdateBooking(id, u)
    \/ \E id \in 1..MaxBookings : CancelBooking(id)

SpecLifecycle == Init /\ [][NextLifecycle]_vars

(***************************************************************************)
(* The analyzer on its own: a reading of a few metrics, with values at and *)
(* around the thresholds, is handed to anomaly detection.                  *)
(***************************************************************************)
MaxMetrics == 3         \* metrics a reading carries

AnalyzerMetrics == {"battery_soh", "battery_soc", "voltage_imbalance", "battery_temp",
                    "motor_efficiency", "motor_temp", "coolant_temp", "coolant_level"}

TestPoints == 1..6

\* six values of a metric: None, beyond critical, at critical, between the
\* thresholds, at warning, on the safe side of warning
TestValue(metric, k) ==
    LET c == CriticalThreshold(metric)
        w == WarningThreshold(metric)
    IN  IF k = 1 THEN NoValue
        ELSE IF c = NoThreshold THEN 100 * k
        ELSE IF metric \in LowerIsWorse
        THEN CASE k = 2 -> c - 1 [] k = 3 -> c [] k = 4 -> (c + w) \div 2
               [] k = 5 -> w [] OTHER -> w + 1
        ELSE CASE k = 2 -> c + 1 [] k = 3 -> c [] k = 4 -> (c + w) \div 2
               [] k = 5 -> w [] OTHER -> w - 1

\* the sets of metrics a reading may carry
MetricSets == {D \in SUBSET AnalyzerMetrics : Cardinality(D) <= MaxMetrics}

\* execute_agent_action("health_monitor", "anomaly_detection", ...): the
\* action is written into the data before the agent is called
Evaluate ==
    /\ verdict = NoVerdict
    /\ verdict' = AgentProcess("health_monitor",
                               [action |-> "anomaly_detection",
                                vehicle_id |-> 1, telemetry |-> reading],
                               Db, now).result
    /\ UNCHANGED <<reading, schedVars, pipeVars>>

InitReadings ==
    /\ InitScheduler
    /\ workshop_table = Workshops
    /\ InitPipeline
    /\ \E D \in MetricSets : \E idx \in [D -> TestPoints] :
          reading = [m \in D |-> TestValue(m, idx[m])]
    /\ verdict = NoVerdict

SpecAnalyzer == InitReadings /\ [][Evaluate]_vars

(***************************************************************************)
(* The pipeline on its own: events for a known and an unknown vehicle,     *)
(* one after the other, with none or one of the agents failing.            *)
(***************************************************************************)
PipelineVehicles == {1, UnknownVehicle}

\* the scenario reading (battery_soh 65.0, battery_temp 47.0), a reading
\* with one warning, a healthy reading with a None, and a reading that is
\* critical on a metric the health check does not look at
PipelineReadings ==
    {[battery_soh |-> 650, battery_temp |-> 470],
     [battery_temp |-> 420],
     [battery_soh |-> 900, battery_temp |-> NoValue],
     [motor_temp |-> 900]}

FaultSets == {{}} \cup {{a} : a \in Agents}

InitFaulty ==
    /\ InitScheduler
    /\ workshop_table = Workshops
    /\ InitAnalyzer
    /\ InitTables
    /\ faulty \in FaultSets

NextPipeline ==
    \/ Tick
    \/ \E v \in PipelineVehicles, r \in PipelineReadings : ProcessVehicleTelemetry(v, r)
    \/ LogAction
    \/ StageReturns
    \/ StageRaises

SpecPipeline == InitFaulty /\ [][NextPipeline]_vars


(***************************************************************************)
(* Properties of the scheduler.                                            *)
(***************************************************************************)
Booked(t) == task[t].pc = "done" /\ "booking_id" \in DOMAIN task[t].result

Refused(t, message) ==
    /\ task[t].pc = "done"
    /\ "error" \in DOMAIN task[t].result
    /\ task[t].result.error = message

Overlap(a, b) ==
    /\ a.booking_slot < b.booking_slot + b.estimated_duration
    /\ b.booking_slot < a.booking_slot + a.estimated_duration

\* C1: any two distinct non-cancelled bookings of the same workshop have
\* disjoint half-open intervals [booking_slot, booking_slot + estimated_duration)
SlotNonOverlap ==
    \A i, j \in 1..Len(bookings) :
        (/\ i < j
         /\ bookings[i].workshop_id = bookings[j].workshop_id
         /\ bookings[i].status # "cancelled"
         /\ bookings[j].status # "cancelled")
        => ~Overlap(bookings[i], bookings[j])

\* neither call saw the row of the other when it searched
Concurrent(t, u) ==
    /\ task[t].call.rows_seen < task[u].result.booking_id
    /\ task[u].call.rows_seen < task[t].result.booking_id

\* C2: of two concurrent Schedule calls that chose the same slot of the same
\* workshop, at most one commits a booking at that slot
ConcurrentCallsTakeDistinctSlots ==
    \A t, u \in TaskIds :
        (/\ t # u
         /\ Booked(t)
         /\ Booked(u)
         /\ Concurrent(t, u)
         /\ task[t].result.workshop_id = task[u].result.workshop_id)
        => task[t].result.booking_slot # task[u].result.booking_slot

\* the delay bound the design gives each priority tier, in minutes
TierBound(priority) ==
    CASE priority = "critical" -> 24 * 60
      [] priority = "high" -> 72 * 60
      [] priority = "normal" -> 168 * 60
      [] priority = "low" -> 336 * 60

\* C3: a slot chosen or booked by Schedule starts at most the tier's bound
\* after the decision instant, and a call refused for lack of slots saw no
\* workshop with a slot within the bound
DelayBoundRespected ==
    \A t \in TaskIds :
        LET bound == TierBound(task[t].call.req.priority)
            at == task[t].call.decided_at
        IN  /\ task[t].pc = "commit"
                => task[t].optimal_slot.slot_time - at <= bound
            /\ Booked(t)
                => /\ task[t].result.booking_slot - at <= bound
                   /\ bookings[task[t].result.booking_id].booking_slot - at <= bound
            /\ Refused(t, "No available slots found")
                => \A i \in DOMAIN task[t].seen :
                      task[t].seen[i] = NoSlot \/ task[t].seen[i] - at > bound

\* a call refused although a workshop had a free slot, beyond the bound,
\* while the table holds a booking
DelayBoundWitness ==
    /\ \E t \in TaskIds :
          /\ Refused(t, "No available slots found")
          /\ \E i \in DOMAIN task[t].seen : task[t].seen[i] # NoSlot
    /\ Len(bookings) > 0

(***************************************************************************)
(* Properties of the analyzer.                                             *)
(***************************************************************************)
Evaluated == verdict # NoVerdict

\* the severity the verdict gives a metric: that of its anomaly, or "none"
SeverityOf(metric) ==
    LET hits == { i \in 1..Len(verdict.anomalies) : verdict.anomalies[i].metric = metric }
    IN  IF hits = {} THEN "none" ELSE verdict.anomalies[Min(hits)].severity

ScoreOf(metric) ==
    LET hits == { i \in 1..Len(verdict.anomalies) : verdict.anomalies[i].metric = metric }
    IN  IF hits = {} THEN 0 ELSE verdict.anomalies[Min(hits)].severity_score

\* the metrics the design calls lower-is-worse
DecliningIsBad == {"battery_soh", "motor_efficiency", "coolant_level"}

\* the tier the design gives a value: strictly beyond critical, strictly
\* beyond warning, or none
ExpectedSeverity(metric, value) ==
    IF metric \in DecliningIsBad
    THEN IF value < CriticalThreshold(metric) THEN "critical"
         ELSE IF value < WarningThreshold(metric) THEN "warning" ELSE "none"
    ELSE IF value > CriticalThreshold(metric) THEN "critical"
         ELSE IF value > WarningThreshold(metric) THEN "warning" ELSE "none"

Thresholded(metric) ==
    CriticalThreshold(metric) # NoThreshold \/ WarningThreshold(metric) # NoThreshold

\* C9: every present metric with thresholds is classified by its direction,
\* with strict comparisons: critical scores 1.0, warning 0.6, a value equal
\* to a threshold does not breach it
ThresholdClassification ==
    Evaluated =>
        \A m \in DOMAIN reading :
            (reading[m] # NoValue /\ Thresholded(m)) =>
                /\ SeverityOf(m) = ExpectedSeverity(m, reading[m])
                /\ ScoreOf(m) = CASE SeverityOf(m) = "critical" -> 10
                                  [] SeverityOf(m) = "warning" -> 6
                                  [] OTHER -> 0

\* a lower-is-worse value equal to its critical threshold is a warning, a
\* higher-is-worse value equal to its warning threshold is no anomaly, and
\* another metric is critical
ThresholdClassificationWitness ==
    /\ Evaluated
    /\ \E m \in DOMAIN reading :
          /\ m \in DecliningIsBad
          /\ reading[m] = CriticalThreshold(m)
          /\ SeverityOf(m) = "warning"
    /\ \E m \in DOMAIN reading :
          /\ m \notin DecliningIsBad
          /\ reading[m] = WarningThreshold(m)
          /\ Thresholded(m)
          /\ SeverityOf(m) = "none"
    /\ \E m \in DOMAIN reading : SeverityOf(m) = "critical"

AnomalyScores == { verdict.anomalies[i].severity_score : i \in 1..Len(verdict.anomalies) }

\* C10: the overall severity is the greatest anomaly score, or 0 without
\* anomalies; immediate attention is required iff it is at least 0.8; metrics
\* that are absent, None or without thresholds have no anomaly
OverallSeverityIsMax ==
    Evaluated =>
        /\ verdict.overall_severity \in {0, 6, 10}
        /\ verdict.anomalies_detected = Len(verdict.anomalies)
        /\ AnomalyScores = {} => verdict.overall_severity = 0
        /\ AnomalyScores # {} =>
              /\ verdict.overall_severity \in AnomalyScores
              /\ \A x \in AnomalyScores : x <= verdict.overall_severity
        /\ verdict.requires_immediate_attention <=> verdict.overall_severity >= 8
        /\ \A i \in 1..Len(MetricOrder) :
              LET m == MetricOrder[i]
              IN  (m \notin DOMAIN reading \/ reading[m] = NoValue \/ ~Thresholded(m))
                      => SeverityOf(m) = "none"

\* a warning followed by a critical anomaly, beside a metric that is None
OverallSeverityWitness ==
    /\ Evaluated
    /\ Len(verdict.anomalies) = 2
    /\ verdict.anomalies[1].severity_score = 6
    /\ verdict.anomalies[2].severity_score = 10
    /\ verdict.overall_severity = 10
    /\ verdict.requires_immediate_attention
    /\ \E m \in DOMAIN reading : reading[m] = NoValue /\ Thresholded(m)

(***************************************************************************)
(* Properties of the pipeline.                                             *)
(***************************************************************************)
Done == flow.pc = "returned"

Range(seq) == {seq[i] : i \in 1..Len(seq)}

\* the overall severity of the anomaly verdict on the event's reading
ReadingSeverity == DetectAnomalies(flow.telemetry, flow.vehicle_id, now).overall_severity

\* the audit rows of scheduling calls made for the event's vehicle
SchedulerCalls ==
    {i \in 1..Len(agent_actions) :
        /\ agent_actions[i].agent_name = "Planner"
        /\ agent_actions[i].vehicle_id = flow.vehicle_id}

\* the result carries a booking that is a row of the table
CarriesBooking(out) ==
    /\ "results" \in DOMAIN out
    /\ "booking" \in DOMAIN out.results
    /\ "booking_id" \in DOMAIN out.results["booking"]
    /\ out.results["booking"].booking_id \in 1..Len(bookings)

\* C4: when the communicator raises on every call, an event of a known
\* vehicle whose reading has overall severity >= 0.6 ends in a completed
\* result that carries the booking made by the scheduling stage.
NotifierFailureContained ==
    (/\ Done
     /\ faulty = {"communicator"}
     /\ flow.vehicle_id \in Vehicles
     /\ ReadingSeverity >= HighSeverity)
        => /\ flow.out.workflow_completed
           /\ CarriesBooking(flow.out)

ScenarioReading == [battery_soh |-> 650, battery_temp |-> 470]

\* C5: the event with the reading {battery_soh: 65.0, battery_temp: 47.0},
\* no agent failing, ends with an analysis result of two critical anomalies
\* and overall severity 1.0, and with the scheduler called with priority
\* critical, whose delay bound is 24 hours.
ScenarioSchedulesCritical ==
    (/\ Done
     /\ faulty = {}
     /\ flow.vehicle_id \in Vehicles
     /\ flow.telemetry = ScenarioReading)
        => /\ flow.out.workflow_completed
           /\ LET health_result == flow.out.results["health_monitoring"]
              IN  /\ Get(health_result, "anomalies_detected", 0) = 2
                  /\ Get(health_result, "overall_severity", 0) = CriticalScore
                  /\ \A i \in 1..Len(Get(health_result, "anomalies", <<>>)) :
                        health_result.anomalies[i].severity = "critical"
           /\ "booking" \in Range(flow.started)
           /\ \E i \in SchedulerCalls :
                 /\ agent_actions[i].input_data.priority = "critical"
                 /\ MaxDelayHours(agent_actions[i].input_data.priority) = 24

\* C6: process_vehicle_telemetry ends in a returned dict whichever agent
\* raises: the dict names the vehicle and either is completed and lists the
\* stages that ran with their results, or is not completed and carries the
\* error and the results of the stages that had finished; a stage that
\* raised ends the call with such a dict.
AlwaysReturnsResult ==
    /\ flow.pc \in {"idle", "call", "process", "returned"}
    /\ flow.pc = "call" => Len(flow.started) = Len(flow.finished)
    /\ Done =>
        /\ flow.out.vehicle_id = flow.vehicle_id
        /\ flow.out.workflow_completed \in BOOLEAN
        /\ flow.out.workflow_completed =>
              /\ flow.out.steps_executed = flow.finished
              /\ flow.started = flow.finished
              /\ DOMAIN flow.out.results = Range(flow.finished)
        /\ ~flow.out.workflow_completed =>
              /\ "error" \in DOMAIN flow.out
              /\ "partial_results" \in DOMAIN flow.out
              /\ DOMAIN flow.out.partial_results = Range(flow.finished)
              /\ Len(flow.started) = Len(flow.finished) + 1
              /\ agent_actions[flow.action_id].status = "failed"
    /\ (flow.pc # "idle" /\ flow.action_id > 0
        /\ agent_actions[flow.action_id].status = "failed")
          => Done /\ ~flow.out.workflow_completed

\* the analysis stage raised after the logging stage had returned, and the
\* call returned the error with the logging result
AlwaysReturnsResultWitness ==
    /\ Done
    /\ faulty = {"health_monitor"}
    /\ ~flow.out.workflow_completed
    /\ flow.started = <<"logging", "health_monitoring">>
    /\ DOMAIN flow.out.partial_results = {"logging"}

\* C7: for an event of a known vehicle with no agent failing, the
\* scheduling stage is entered iff the overall severity of the reading is
\* >= 0.6, with priority critical from 0.8 and high below; below 0.6 the
\* scheduler is not called and no booking is made.
SchedulingEnteredIffSevere ==
    (/\ Done
     /\ faulty = {}
     /\ flow.vehicle_id \in Vehicles)
        => /\ ("booking" \in Range(flow.started)) <=> (ReadingSeverity >= HighSeverity)
           /\ \A i \in SchedulerCalls :
                 agent_actions[i].input_data.priority =
                    IF ReadingSeverity >= CriticalSeverity THEN "critical" ELSE "high"
           /\ ReadingSeverity < HighSeverity
                 => /\ SchedulerCalls = {}
                    /\ \A b \in 1..Len(bookings) :
                          bookings[b].vehicle_id # flow.vehicle_id

\* the place of a stage in the order of the pipeline
StageRank(stage) ==
    CASE stage = "logging" -> 1
      [] stage = "health_monitoring" -> 2
      [] stage = "booking" -> 3
      [] stage = "booking_communication" -> 4
      [] stage = "alert_communication" -> 5

\* C8: the stages of one event start in the order logging, analysis,
\* scheduling, notification; a stage starts only when every stage started
\* before it has finished; the scheduler is called only after the analysis
\* has returned, and a notification only after the scheduling, if entered,
\* has finished.
StagesInOrder ==
    flow.pc # "idle" =>
        /\ Len(flow.started) - Len(flow.finished) \in {0, 1}
        /\ flow.finished = SubSeq(flow.started, 1, Len(flow.finished))
        /\ \A i, j \in 1..Len(flow.started) :
              i < j => StageRank(flow.started[i]) < StageRank(flow.started[j])
        /\ \A i \in 1..Len(flow.started) :
              /\ StageRank(flow.started[i]) >= 2
                    => i > 1 /\ flow.started[i - 1] \in Range(flow.finished)
              /\ StageRank(flow.started[i]) >= 3
                    => "health_monitoring" \in Range(SubSeq(flow.finished, 1, i - 1))
        /\ flow.pc = "process" <=> Len(flow.started) = Len(flow.finished) + 1 /\ ~Done

\* an event whose analysis stage started after its logging stage finished,
\* and that returned completed
StagesInOrderWitness ==
    /\ Done
    /\ flow.out.workflow_completed
    /\ flow.started = <<"logging", "health_monitoring">>
    /\ flow.finished = flow.started
    /\ Len(agent_actions) >= 2
    /\ agent_actions[flow.action_id].agent_name = "HealthMonitor"
    /\ agent_actions[flow.action_id - 1].status = "completed"

(***************************************************************************)
(* Properties of the life of a booking.                                    *)
(***************************************************************************)
TerminalStatuses == {"completed", "cancelled"}

StatusRank(status) ==
    CASE status = "scheduled" -> 1
      [] status = "confirmed" -> 2
      [] status = "in_progress" -> 3
      [] status = "completed" -> 4
      [] status = "cancelled" -> 5

\* a step of the status that the life of a booking allows
ForwardStep(from, to) ==
    /\ from \notin TerminalStatuses
    /\ to = "cancelled" \/ StatusRank(from) < StatusRank(to)

\* C11: the status of a booking only moves forward along scheduled,
\* confirmed, in_progress, completed, or to cancelled from a status that is
\* not terminal; no update or cancel moves it back or out of completed or
\* cancelled.
StatusMovesForward ==
    [][\A i \in 1..Len(bookings) :
          bookings'[i].status # bookings[i].status
             => ForwardStep(bookings[i].status, bookings'[i].status)]_vars

(***************************************************************************)
(* Properties of the outcomes of _schedule_booking.                        *)
(***************************************************************************)
NoAvailabilityMessages == {"No available workshops found", "No available slots found"}

\* the call of t was refused for lack of a workshop or of a slot
NoAvailability(t) ==
    /\ task[t].pc = "done"
    /\ "error" \in DOMAIN task[t].result
    /\ task[t].result.error \in NoAvailabilityMessages

\* C12 as stated: a call that finds no workshop for the service, or no slot
\* within the delay bound, returns an error dict with a message and the
\* count of the workshops checked, and adds no booking.
NoAvailabilityCarriesCounts ==
    \A t \in TaskIds :
        NoAvailability(t)
            => /\ "workshops_checked" \in DOMAIN task[t].result
               /\ Len(bookings) = task[t].call.rows_seen

\* C12: a call with a known vehicle returns an error dict exactly when no
\* workshop offers the service or none has a slot within the delay bound,
\* and then adds no booking; the dict carries a message, and it carries the
\* count of the workshops checked when workshops were checked, and
\* recommendations when no workshop offers the service.
NoAvailabilityReturned ==
    \A t \in TaskIds :
        (task[t].pc = "done" /\ task[t].call.req.vehicle_id \in Vehicles)
            => LET suitable == FindSuitableWorkshops(task[t].call.req.service_type)
                   result == task[t].result
               IN  /\ Len(suitable) = 0
                        => /\ NoAvailability(t)
                           /\ result.error = "No available workshops found"
                           /\ Len(result.recommendations) > 0
                           /\ "workshops_checked" \notin DOMAIN result
                   /\ NoAvailability(t)
                        => /\ Len(bookings) = task[t].call.rows_seen
                           /\ "booking_id" \notin DOMAIN result
                   /\ (NoAvailability(t) /\ Len(suitable) > 0)
                        => /\ result.error = "No available slots found"
                           /\ "workshops_checked" \in DOMAIN result
                           /\ result.workshops_checked = Len(suitable)
                   /\ ~NoAvailability(t) => "booking_id" \in DOMAIN result

\* a call refused after both workshops that offer the service were checked,
\* with the two bookings that block them in the table
NoAvailabilityWitness ==
    /\ NoAvailability(1)
    /\ task[1].result.error = "No available slots found"
    /\ task[1].result.workshops_checked = 2
    /\ Len(bookings) = 2
    /\ task[1].call.rows_seen = 2

\* the update of a step changed the interval of booking i
IntervalChanged(i) ==
    \/ bookings'[i].booking_slot # bookings[i].booking_slot
    \/ bookings'[i].estimated_duration # bookings[i].estimated_duration

\* C13: an update that changes the interval of a booking leaves it clear
\* of every other non-cancelled booking of the same workshop (an update to
\* an overlapping interval would fail and keep the original interval).
RescheduleKeepsCalendar ==
    [][\A i \in 1..Len(bookings) :
          (IntervalChanged(i) /\ bookings'[i].status # "cancelled")
             => \A j \in 1..Len(bookings) :
                   (/\ j # i
                    /\ bookings'[j].workshop_id = bookings'[i].workshop_id
                    /\ bookings'[j].status # "cancelled")
                   => ~Overlap(bookings'[i], bookings'[j])]_vars

\* the rows added to the table since t searched, while t was on its way to
\* its commit
AddedSinceSearch(t) == (task[t].call.rows_seen + 1)..Len(bookings)

\* the slot t chose has been taken by a row added since t searched
SlotConsumed(t) ==
    \E j \in AddedSinceSearch(t) :
        /\ bookings[j].workshop_id = task[t].optimal_slot.workshop_id
        /\ bookings[j].status # "cancelled"
        /\ Overlap(bookings[j],
                   [booking_slot |-> task[t].optimal_slot.slot_time,
                    estimated_duration |-> task[t].optimal_slot.estimated_duration])

\* C14: a call whose chosen slot was consumed by a concurrent booking
\* between its search and its commit does not commit that slot (it searches
\* once more against the table as it is now, and books another slot or
\* reports that none is available).
LostRaceNotCommitted ==
    [][\A t \in TaskIds :
          (task[t].pc = "commit" /\ SlotConsumed(t) /\ task'[t].pc = "done")
             => \/ "error" \in DOMAIN task'[t].result
                \/ /\ Len(bookings') = Len(bookings) + 1
                   /\ \A j \in AddedSinceSearch(t) :
                         (/\ bookings[j].workshop_id = bookings'[Len(bookings')].workshop_id
                          /\ bookings[j].status # "cancelled")
                         => ~Overlap(bookings[j], bookings'[Len(bookings')])]_vars

(***************************************************************************)
(* More properties of the pipeline.                                        *)
(***************************************************************************)
\* the audit rows of the event in hand: one per stage started
EventRows ==
    IF flow.pc = "idle" THEN {}
    ELSE (Len(agent_actions) - Len(flow.started) + 1)..Len(agent_actions)

\* the analysis stage of the event in hand raised
AnalysisRaised ==
    \E i \in EventRows :
        /\ agent_actions[i].agent_name = "HealthMonitor"
        /\ agent_actions[i].status = "failed"

\* C15: when the analysis stage of an event raises, the event ends there:
\* its result has workflow_completed false and the error, and neither the
\* planner nor the communicator is called for it.
AnalyzerFailureIsFatal ==
    AnalysisRaised
        => /\ Done
           /\ ~flow.out.workflow_completed
           /\ "error" \in DOMAIN flow.out
           /\ flow.started[Len(flow.started)] = "health_monitoring"
           /\ \A i \in EventRows :
                 agent_actions[i].agent_name \notin {"Planner", "Communicator"}
           /\ "health_monitoring" \notin DOMAIN flow.out.partial_results

\* the analysis of a second event raised, after a first event had failed
\* the same way
AnalyzerFailureWitness ==
    /\ AnalysisRaised
    /\ flow.events = 2
    /\ Len(agent_actions) = 4
    /\ agent_actions[2].status = "failed"
    /\ agent_actions[4].status = "failed"
    /\ agent_actions[3].status = "completed"

\* the agent and the action_type the coordinator names for each stage
StageAgent(stage) ==
    CASE stage = "logging" -> "Logger"
      [] stage = "health_monitoring" -> "HealthMonitor"
      [] stage = "booking" -> "Planner"
      [] stage \in {"booking_communication", "alert_communication"} -> "Communicator"

StageActionType(stage) ==
    CASE stage = "logging" -> "log_telemetry"
      [] stage = "health_monitoring" -> "anomaly_detection"
      [] stage = "booking" -> "schedule_booking"
      [] stage = "booking_communication" -> "send_booking_confirmation"
      [] stage = "alert_communication" -> "send_alert"

\* C16: every stage started has its own audit row, written before the
\* stage runs, with the agent's name, the action type and the inputs; the
\* row is "processing" while the stage runs and ends as "completed" with the
\* outputs, or as "failed" with the error message, and with the processing
\* time; rows of earlier events are all closed.
AuditTrail ==
    flow.pc # "idle" =>
        LET base == Len(agent_actions) - Len(flow.started)
        IN  /\ base >= 0
            /\ \A i \in 1..base :
                  /\ agent_actions[i].status \in {"completed", "failed"}
                  /\ "processing_time" \in DOMAIN agent_actions[i]
            /\ \A k \in 1..Len(flow.started) :
                  LET row == agent_actions[base + k]
                      stage == flow.started[k]
                  IN  /\ row.agent_name = StageAgent(stage)
                      /\ row.action_type = StageActionType(stage)
                      /\ row.vehicle_id = flow.vehicle_id
                      /\ row.input_data.vehicle_id = flow.vehicle_id
                      /\ stage \in {"logging", "health_monitoring"}
                            => row.input_data.telemetry = flow.telemetry
                      /\ k <= Len(flow.finished)
                            => /\ row.status = "completed"
                               /\ row.output_data = flow.results[stage]
                               /\ row.processing_time \in 0..(now - StartClock)
                      /\ (k > Len(flow.finished) /\ flow.pc = "process")
                            => /\ row.status = "processing"
                               /\ DOMAIN row = {"agent_name", "action_type",
                                                "vehicle_id", "input_data", "status"}
                               /\ flow.action_id = base + k
                      /\ (k > Len(flow.finished) /\ Done)
                            => /\ row.status = "failed"
                               /\ row.error_message = flow.out.error
                               /\ row.processing_time \in 0..(now - StartClock)

\* an event whose logging row is completed and whose analysis row is
\* failed, the failure having taken time
AuditTrailWitness ==
    /\ Done
    /\ Len(flow.started) = 2
    /\ agent_actions[flow.action_id].status = "failed"
    /\ agent_actions[flow.action_id].processing_time > 0
    /\ agent_actions[flow.action_id - 1].status = "completed"
    /\ agent_actions[flow.action_id - 1].output_data = flow.results["logging"]

\* the call of task t returns in this step
CallReturns(t) == task[t].pc \in {"idle", "commit"} /\ task'[t].pc = "done"

\* C17: a schedule call that returns a booking has added exactly one row,
\* with status scheduled, for the workshop and the slot it chose, and has
\* left every other row as it was; a call that returns an error (vehicle not
\* found, no workshops, no slots) leaves the bookings unchanged; and the
\* bookings gain a row only by a call that returns a booking.
OneBookingPerSuccess ==
    [][/\ \A t \in TaskIds :
            CallReturns(t) =>
                IF "booking_id" \in DOMAIN task'[t].result
                THEN /\ Len(bookings') = Len(bookings) + 1
                     /\ SubSeq(bookings', 1, Len(bookings)) = bookings
                     /\ task'[t].result.booking_id = Len(bookings')
                     /\ bookings'[Len(bookings')].status = "scheduled"
                     /\ bookings'[Len(bookings')].workshop_id
                            = task[t].optimal_slot.workshop_id
                     /\ bookings'[Len(bookings')].booking_slot
                            = task[t].optimal_slot.slot_time
                     /\ bookings'[Len(bookings')].vehicle_id
                            = task[t].call.req.vehicle_id
                     /\ task'[t].result.workshop_id
                            = bookings'[Len(bookings')].workshop_id
                     /\ task'[t].result.booking_slot
                            = bookings'[Len(bookings')].booking_slot
                ELSE /\ "error" \in DOMAIN task'[t].result
                     /\ bookings' = bookings
       /\ Len(bookings') # Len(bookings) =>
            \E t \in TaskIds : /\ CallReturns(t)
                               /\ "booking_id" \in DOMAIN task'[t].result
                               /\ \A u \in TaskIds \ {t} : task'[u] = task[u]
      ]_vars

\* one call has returned the booking it created, the only row, and
\* another has returned an error
OneBookingWitness ==
    \E t, u \in TaskIds :
        /\ task[t].pc = "done" /\ task[u].pc = "done"
        /\ "booking_id" \in DOMAIN task[t].result
        /\ "error" \in DOMAIN task[u].result
        /\ Len(bookings) = 1
        /\ bookings[1].status = "scheduled"
        /\ bookings[1].workshop_id = task[t].result.workshop_id
        /\ bookings[1].booking_slot = task[t].result.booking_slot

\* the score of the anomaly _check_metric_anomaly gives a value, 0 for none
ScoreFor(metric, value) ==
    LET anomaly == CheckMetricAnomaly(metric, value)
    IN  IF anomaly = NoAnomaly THEN 0 ELSE anomaly.severity_score

\* the values a metric's value is compared with
ComparedValues(metric) == { TestValue(metric, k) : k \in 2..6 }

\* C18: for a lower-is-worse metric whose value v2 in the reading is at or
\* below its warning threshold, every smaller value v1 gets an anomaly whose
\* score is at least the score the verdict gives v2 (no anomaly scoring 0).
ThresholdMonotonicity ==
    Evaluated =>
        \A m \in DOMAIN reading \cap DecliningIsBad :
            (reading[m] # NoValue /\ reading[m] <= WarningThreshold(m)) =>
                \A v1 \in ComparedValues(m) :
                    v1 < reading[m] => ScoreFor(m, v1) >= ScoreOf(m)

\* a lower-is-worse metric between its thresholds scores 0.6 where a value
\* below critical scores 1.0, and another at its warning threshold scores 0
\* where a value between the thresholds scores 0.6
ThresholdMonotonicityWitness ==
    /\ Evaluated
    /\ \E m \in DOMAIN reading \cap DecliningIsBad :
          /\ reading[m] = TestValue(m, 4)
          /\ ScoreOf(m) = WarningScore
          /\ ScoreFor(m, TestValue(m, 2)) = CriticalScore
    /\ \E m \in DOMAIN reading \cap DecliningIsBad :
          /\ reading[m] = WarningThreshold(m)
          /\ ScoreOf(m) = 0
          /\ ScoreFor(m, TestValue(m, 4)) = WarningScore

\* the value lies strictly between the two thresholds of the metric
BetweenThresholds(metric, value) ==
    /\ CriticalThreshold(metric) # NoThreshold
    /\ WarningThreshold(metric) # NoThreshold
    /\ IF metric \in DecliningIsBad
       THEN CriticalThreshold(metric) < value /\ value < WarningThreshold(metric)
       ELSE WarningThreshold(metric) < value /\ value < CriticalThreshold(metric)

\* the value has not reached the warning threshold of the metric
SafeSideOfWarning(metric, value) ==
    /\ WarningThreshold(metric) # NoThreshold
    /\ IF metric \in DecliningIsBad
       THEN value > WarningThreshold(metric)
       ELSE value < WarningThreshold(metric)

\* C19 as stated: a value strictly between the warning and the critical
\* threshold of its metric produces no anomaly.
NoAnomalyBetweenThresholds ==
    Evaluated =>
        \A m \in DOMAIN reading :
            (reading[m] # NoValue /\ BetweenThresholds(m, reading[m])) =>
                SeverityOf(m) = "none"

\* C19: a value strictly on the safe side of the warning threshold of its
\* metric produces no anomaly.
NoAnomalyWithoutBreach ==
    Evaluated =>
        \A m \in DOMAIN reading :
            (reading[m] # NoValue /\ SafeSideOfWarning(m, reading[m])) =>
                /\ SeverityOf(m) = "none"
                /\ \A i \in 1..Len(verdict.anomalies) : verdict.anomalies[i].metric # m

\* a verdict with anomalies, none of them for the lower-is-worse and the
\* higher-is-worse metric that are on the safe side of their warning
NoAnomalyWithoutBreachWitness ==
    /\ Evaluated
    /\ Len(verdict.anomalies) > 0
    /\ \E m \in DOMAIN reading \cap DecliningIsBad :
          SafeSideOfWarning(m, reading[m]) /\ SeverityOf(m) = "none"
    /\ \E m \in DOMAIN reading \ DecliningIsBad :
          /\ reading[m] # NoValue
          /\ SafeSideOfWarning(m, reading[m]) /\ SeverityOf(m) = "none"

(***************************************************************************)
(* The trend of battery_soh: readings are logged one after the other and   *)
(* the health check looks at the history of a vehicle.                     *)
(***************************************************************************)
MaxHistory == 4         \* rows of vehicle_telemetry

\* battery_soh of a logged reading: None, 75.0, 80.0, 85.0
SohValues == {NoValue, 750, 800, 850}

\* logger.process({"vehicle_id", "telemetry"})
LogReading(vehicle_id, value) ==
    LET out == AgentProcess("logger",
                            [vehicle_id |-> vehicle_id,
                             telemetry |-> [battery_soh |-> value]], Db, now)
    IN  /\ Len(vehicle_telemetry) < MaxHistory
        /\ vehicle_telemetry' = out.db.vehicle_telemetry
        /\ UNCHANGED <<schedVars, analyzerVars, flow, parked, loops, agent_actions,
                       vehicle_status, notifications, faulty>>

\* _perform_health_check(vehicle_id), up to trends = _analyze_trends(...)
HealthCheckTrends(vehicle_id) ==
    /\ vehicle_id \in Vehicles
    /\ LatestTelemetry(vehicle_telemetry, vehicle_id) # 0
    /\ verdict' = [kind |-> "trends", vehicle_id |-> vehicle_id,
                   trends |-> AnalyzeTrends(vehicle_telemetry, vehicle_id)]
    /\ UNCHANGED <<reading, schedVars, pipeVars>>

NextTrend ==
    \/ \E v \in Vehicles, value \in SohValues : LogReading(v, value)
    \/ \E v \in Vehicles : HealthCheckTrends(v)
    \/ Tick

InitTrend ==
    /\ InitScheduler
    /\ workshop_table = Workshops
    /\ InitAnalyzer
    /\ InitPipeline

SpecTrend == InitTrend /\ [][NextTrend]_vars

\* the battery_soh readings of a vehicle, oldest first
Chronological(vehicle_id) ==
    LET mine == SelectSeq(vehicle_telemetry,
                          LAMBDA r : /\ r.vehicle_id = vehicle_id
                                     /\ r.metrics["battery_soh"] # NoValue)
    IN  [i \in 1..Len(mine) |-> mine[i].metrics["battery_soh"]]

\* at least three readings, each differing from the one before by step
LinearHistory(h, step) ==
    /\ Len(h) >= 3
    /\ \A i \in 1..(Len(h) - 1) : h[i + 1] - h[i] = step

HistorySteps == {50, 0 - 50}

\* C20: when the health check computes the trends of a vehicle whose
\* battery_soh history is linear, the direction is improving for a history
\* that increases and declining for one that decreases.
TrendSignConvention ==
    [][\A step \in HistorySteps :
          (/\ verdict' # verdict
           /\ verdict'.kind = "trends"
           /\ LinearHistory(Chronological(verdict'.vehicle_id), step))
          => /\ "battery_soh" \in DOMAIN verdict'.trends
             /\ verdict'.trends.battery_soh.direction
                  = IF step > 0 THEN "improving" ELSE "declining"
      ]_vars

(***************************************************************************)
(* Two process_vehicle_telemetry calls for two vehicles on one event       *)
(* loop: a call runs up to an await, and the loop may then resume the      *)
(* other call.  A handler's work on its session is one step.               *)
(***************************************************************************)
ConcurrentReadings ==
    {[battery_soh |-> 650, battery_temp |-> 470],
     [battery_soh |-> 900, battery_temp |-> 420]}

\* the event loop suspends the running call and resumes the other one
Yield ==
    /\ flow # parked
    /\ flow' = parked
    /\ parked' = flow
    /\ UNCHANGED <<schedVars, analyzerVars, agent_actions, vehicle_telemetry,
                   vehicle_status, notifications, faulty, loops>>

\* a first call, or a second one for a vehicle the suspended call is not
\* about
ProcessOtherVehicle(vehicle_id, telemetry_data) ==
    /\ flow.pc = "idle"
    /\ parked.pc # "idle" => parked.vehicle_id # vehicle_id
    /\ ProcessVehicleTelemetry(vehicle_id, telemetry_data)

NextConcurrent ==
    \/ \E v \in Vehicles, r \in ConcurrentReadings : ProcessOtherVehicle(v, r)
    \/ LogAction
    \/ StageReturns
    \/ StageRaises
    \/ Yield

SpecConcurrent == InitFaulty /\ [][NextConcurrent]_vars

\* the two calls
Frames == {flow, parked}

\* what a call for this vehicle and reading returns from the health stage
\* when the vehicle's newest row is the one the call has logged
OwnHealthMetrics(f) == AnalyzeHealthMetrics(TelemetryRow(f.vehicle_id, f.telemetry))

\* C21: whatever the interleaving of two calls for different vehicles, the
\* results a call holds, the result it returns and the audit row it wrote
\* are about its own vehicle: the telemetry row it logged is its own
\* reading, and its health result is the one of its own reading.
EventsIsolated ==
    \A f \in Frames :
        f.pc # "idle" =>
            /\ \A k \in DOMAIN f.results :
                  "vehicle_id" \in DOMAIN f.results[k]
                      => f.results[k].vehicle_id = f.vehicle_id
            /\ ("logging" \in DOMAIN f.results
                   /\ "telemetry_id" \in DOMAIN f.results["logging"])
                  => vehicle_telemetry[f.results["logging"].telemetry_id]
                        = TelemetryRow(f.vehicle_id, f.telemetry)
            /\ ("health_monitoring" \in DOMAIN f.results
                   /\ "health_metrics" \in DOMAIN f.results["health_monitoring"])
                  => /\ f.results["health_monitoring"].health_metrics
                          = OwnHealthMetrics(f)
                     /\ f.results["health_monitoring"].status
                          = DetermineVehicleStatus(OwnHealthMetrics(f))
            /\ f.action_id # 0
                  => agent_actions[f.action_id].vehicle_id = f.vehicle_id
            /\ f.pc = "returned"
                  => /\ f.out.vehicle_id = f.vehicle_id
                     /\ f.out.workflow_completed => f.out.results = f.results

\* both calls have returned, their rows alternate in the two tables, and
\* one vehicle is critical while the other has a warning
EventsIsolatedWitness ==
    /\ flow.pc = "returned" /\ parked.pc = "returned"
    /\ flow.vehicle_id # parked.vehicle_id
    /\ flow.out.workflow_completed /\ parked.out.workflow_completed
    /\ Len(agent_actions) >= 4
    /\ agent_actions[1].vehicle_id # agent_actions[2].vehicle_id
    /\ agent_actions[3].vehicle_id # agent_actions[4].vehicle_id
    /\ flow.results["health_monitoring"].status = "critical"
    /\ parked.results["health_monitoring"].status = "warning"
    /\ LatestTelemetry(vehicle_telemetry, flow.vehicle_id)
          < LatestTelemetry(vehicle_telemetry, parked.vehicle_id)

\* a reading whose anomalies call for a booking: severity 0.6 or more
BookingTriggering(telemetry) ==
    LET detected == DetectAnomalies(telemetry, 1, now)
    IN  detected.anomalies_detected > 0 /\ detected.overall_severity >= HighSeverity

\* C22: when the same booking-triggering reading has been processed twice
\* for the same vehicle, no agent failing, the bookings table holds two
\* rows for that vehicle, one per event.
NoDeduplication ==
    (/\ Done
     /\ flow.events = 2
     /\ faulty = {}
     /\ flow.vehicle_id \in Vehicles
     /\ BookingTriggering(flow.telemetry)
     /\ agent_actions[1].action_type = "log_telemetry"
     /\ agent_actions[1].vehicle_id = flow.vehicle_id
     /\ agent_actions[1].input_data.telemetry = flow.telemetry)
        => /\ Len(bookings) = 2
           /\ bookings[1].vehicle_id = flow.vehicle_id
           /\ bookings[2].vehicle_id = flow.vehicle_id

\* C24: the handler that runs for a call of execute_with_logging is the one
\* of the action_type the call was given.
DispatchFaithful ==
    flow.pc = "process" =>
        LET call == StageCall(flow.vehicle_id, flow.telemetry, flow.results)
        IN  ActionOf(call.agent, call.data) = call.action_type

(***************************************************************************)
(* The analyzer called again for the reading it has already evaluated,     *)
(* while the clock advances.                                               *)
(***************************************************************************)
EvaluateAgain ==
    /\ verdict # NoVerdict
    /\ verdict' = AgentProcess("health_monitor",
                               [action |-> "anomaly_detection",
                                vehicle_id |-> 1, telemetry |-> reading],
                               Db, now).result
    /\ UNCHANGED <<reading, schedVars, pipeVars>>

NextRepeat ==
    \/ Evaluate
    \/ EvaluateAgain
    \/ Tick

SpecRepeat == InitReadings /\ [][NextRepeat]_vars

\* C23: a second evaluation of the same reading returns what the first one
\* returned.
AnalyzerDeterministic ==
    [][(/\ verdict # NoVerdict
        /\ verdict' # NoVerdict
        /\ reading' = reading)
       => verdict' = verdict]_vars

\* C25: the slot a call has found, and the slot of the booking it has
\* committed, is not earlier than the instant of the call's search.
SlotsInFuture ==
    \A t \in TaskIds :
        /\ task[t].pc = "commit"
              => /\ task[t].optimal_slot.slot_time >= task[t].call.decided_at
                 /\ \A i \in 1..Len(task[t].seen) :
                       task[t].seen[i] # NoSlot
                           => task[t].seen[i] >= task[t].call.decided_at
        /\ Booked(t)
              => task[t].result.booking_slot >= task[t].call.decided_at

\* the hourly grid of the 30 days of the horizon, for a search at time t
Candidates(t) ==
    UNION { DaySlots(RoundToNextHour(t), day_offset) : day_offset \in 0..(HorizonDays - 1) }

\* [slot_time, slot_time + duration) overlaps no booking of the workshop
\* that is not cancelled
ConflictFree(workshop_id, slot_time, duration) ==
    \A i \in 1..Len(bookings) :
        (bookings[i].workshop_id = workshop_id /\ bookings[i].status # "cancelled")
            => ~(/\ slot_time < BookingEnd(bookings[i])
                 /\ slot_time + duration > bookings[i].booking_slot)

\* the call of task t searches in this step
Searches(t) ==
    /\ task[t].pc = "idle"
    /\ task'[t].pc \in {"commit", "done"}
    /\ Len(task'[t].seen) > 0

\* C26: the slot a search finds for a workshop is the earliest candidate of
\* the horizon that overlaps no booking of the workshop that is not
\* cancelled, bookings that began before the search included; the search
\* finds none only when every candidate overlaps such a booking.
SearchFindsEarliestFree ==
    [][\A t \in TaskIds :
          Searches(t) =>
              LET req == task'[t].call.req
                  suitable == FindSuitableWorkshops(req.service_type)
                  duration == EstimateServiceDuration(req.service_type)
              IN  \A i \in 1..Len(suitable) :
                      LET found == task'[t].seen[i]
                          free == { c \in Candidates(now) :
                                      ConflictFree(suitable[i].workshop_id, c, duration) }
                      IN  IF found = NoSlot THEN free = {}
                          ELSE found \in free /\ \A c \in free : found <= c
      ]_vars

(***************************************************************************)
(* One caller booking again and again at workshops whose day fills up: a   *)
(* booking is stretched to the last hour of the day.                       *)
(***************************************************************************)
\* PUT /bookings/{id} with an estimated_duration of nine hours
WindowUpdates == {[estimated_duration |-> (CloseHour - OpenHour - 1) * MinutesPerHour]}

WindowRequests ==
    {[vehicle_id |-> 1, service_type |-> "inspection", priority |-> "critical"],
     [vehicle_id |-> 1, service_type |-> "motor_service", priority |-> "critical"]}

NextWindow ==
    \/ \E req \in WindowRequests : ScheduleSearch(1, req)
    \/ ScheduleCommit(1)
    \/ ScheduleReturn(1)
    \/ \E id \in 1..MaxBookings, u \in WindowUpdates : UpdateBooking(id, u)
    \/ Tick

SpecWindow == Init /\ [][NextWindow]_vars

\* C27: the booking a call has committed starts on the hourly grid at or
\* after 08:00 and ends, its service duration later, at or before 18:00 of
\* the same day.
InsideOperatingWindow ==
    \A t \in TaskIds :
        Booked(t) =>
            LET start == task[t].result.booking_slot
                end == start + task[t].result.estimated_duration
                day == start \div MinutesPerDay
            IN  /\ start % MinutesPerHour = 0
                /\ start >= day * MinutesPerDay + OpenHour * MinutesPerHour
                /\ end <= day * MinutesPerDay + CloseHour * MinutesPerHour

(***************************************************************************)
(* One caller booking inspections while bookings are moved by an hour.     *)
(***************************************************************************)
SlotUpdates == {[booking_slot |-> u] : u \in UpdateSlots}

TouchRequests ==
    {[vehicle_id |-> 1, service_type |-> "inspection", priority |-> "critical"],
     [vehicle_id |-> 1, service_type |-> "battery_service", priority |-> "critical"]}

NextTouch ==
    \/ \E req \in TouchRequests : ScheduleSearch(1, req)
    \/ ScheduleCommit(1)
    \/ ScheduleReturn(1)
    \/ \E id \in 1..MaxBookings, u \in SlotUpdates : UpdateBooking(id, u)
    \/ Tick

SpecTouch == Init /\ [][NextTouch]_vars

\* [slot_time, slot_time + duration) and the interval of b have a point in
\* common, the intervals taken half-open
HalfOpenOverlap(slot_time, duration, b) ==
    \E m \in slot_time..(slot_time + duration - 1) :
        b.booking_slot <= m /\ m < BookingEnd(b)

\* C28: in a search, a candidate is passed over exactly when it has a
\* minute in common with one of the workshop's existing bookings, the
\* intervals taken half-open: the slot returned has none in common with any
\* of them, each earlier candidate has one, and when nothing is returned
\* every candidate has one.
HalfOpenConflictTest ==
    [][\A t \in TaskIds :
          Searches(t) =>
              LET req == task'[t].call.req
                  suitable == FindSuitableWorkshops(req.service_type)
                  duration == EstimateServiceDuration(req.service_type)
              IN  \A i \in 1..Len(suitable) :
                      LET found == task'[t].seen[i]
                          existing == ExistingBookings(bookings, suitable[i].workshop_id, now)
                          clear == { c \in Candidates(now) :
                                       \A e \in existing :
                                           ~HalfOpenOverlap(c, duration, bookings[e]) }
                      IN  IF found = NoSlot THEN clear = {}
                          ELSE found \in clear /\ \A c \in clear : found <= c
      ]_vars

\* two bookings of one workshop that touch: the later one was found by a
\* search that saw the earlier one, or the earlier one by a search that saw
\* the later one
Touching(i, j) ==
    /\ bookings[i].workshop_id = bookings[j].workshop_id
    /\ bookings[i].status \in BlockingStatuses
    /\ bookings[j].status \in BlockingStatuses
    /\ BookingEnd(bookings[i]) = bookings[j].booking_slot

HalfOpenWitness ==
    /\ Booked(1)
    /\ task[1].call.rows_seen = 1
    /\ task[1].result.booking_id = 2
    /\ Touching(2, 1)
    /\ bookings[2].booking_slot = task[1].result.booking_slot

\* the workshops of a search whose slot is within the delay bound
FeasiblePairs(suitable, seen, priority, t) ==
    { i \in 1..Len(suitable) :
        /\ seen[i] # NoSlot
        /\ seen[i] - t <= MaxDelayHours(priority) * MinutesPerHour }

\* delay_in_hours - 10 * rating, times 600: the delay is in minutes and the
\* rating in tenths
PairScore(suitable, seen, t, i) ==
    10 * (seen[i] - t) - 10 * MinutesPerHour * suitable[i].rating

\* C29: a search that has feasible (workshop, earliest slot) pairs selects
\* one of them, and none of them has a score below the score of the one
\* selected; a search without a feasible pair selects nothing.
MinimumScoreSelected ==
    [][\A t \in TaskIds :
          Searches(t) =>
              LET req == task'[t].call.req
                  suitable == FindSuitableWorkshops(req.service_type)
                  seen == task'[t].seen
                  feasible == FeasiblePairs(suitable, seen, req.priority, now)
              IN  IF feasible = {} THEN task'[t].pc = "done"
                  ELSE /\ task'[t].pc = "commit"
                       /\ \E i \in feasible :
                             /\ suitable[i].workshop_id = task'[t].optimal_slot.workshop_id
                             /\ seen[i] = task'[t].optimal_slot.slot_time
                             /\ \A j \in feasible :
                                   PairScore(suitable, seen, now, i)
                                       <= PairScore(suitable, seen, now, j)
      ]_vars

\* a search with two feasible workshops that has selected the one with the
\* lower rating, its slot being two days earlier
MinimumScoreWitness ==
    /\ task[1].pc = "commit"
    /\ Len(task[1].seen) = 2
    /\ FeasiblePairs(workshop_table, task[1].seen, task[1].call.req.priority,
                     task[1].call.decided_at) = {1, 2}
    /\ task[1].optimal_slot.workshop_id = workshop_table[1].workshop_id
    /\ workshop_table[1].rating < workshop_table[2].rating
    /\ task[1].seen[1] + 2 * MinutesPerDay = task[1].seen[2]

(***************************************************************************)
(* One caller booking battery services while a booking is set to three     *)
(* hours.  The select of _find_suitable_workshops has no order_by: the     *)
(* store returns the workshops in either order.                            *)
(***************************************************************************)
Reverse(q) == [i \in 1..Len(q) |-> q[Len(q) + 1 - i]]

StoreOrders == {Workshops, Reverse(Workshops)}

InitTies ==
    /\ now = StartClock
    /\ bookings = <<>>
    /\ workshop_table \in StoreOrders
    /\ task = [t \in TaskIds |-> IdleTask]
    /\ InitAnalyzer
    /\ InitPipeline

\* PUT /bookings/{id} with an estimated_duration of three hours
TieUpdates == {[estimated_duration |-> 3 * MinutesPerHour]}

TieRequests ==
    {[vehicle_id |-> 1, service_type |-> "battery_service", priority |-> "critical"],
     [vehicle_id |-> 1, service_type |-> "cooling_service", priority |-> "critical"]}

NextTies ==
    \/ \E req \in TieRequests : ScheduleSearch(1, req)
    \/ ScheduleCommit(1)
    \/ ScheduleReturn(1)
    \/ \E id \in 1..MaxBookings, u \in TieUpdates : UpdateBooking(id, u)
    \/ Tick

SpecTies == InitTies /\ [][NextTies]_vars

\* the place of a workshop id in the order of the ids
IdRank(workshop_id) ==
    CHOOSE i \in 1..Len(Workshops) : Workshops[i].workshop_id = workshop_id

\* C30: when the pair a search selects has the same score as another
\* feasible pair, the workshop selected is the one with the smaller id.
TiesBrokenById ==
    [][\A t \in TaskIds :
          (Searches(t) /\ task'[t].pc = "commit") =>
              LET req == task'[t].call.req
                  suitable == FindSuitableWorkshops(req.service_type)
                  seen == task'[t].seen
                  feasible == FeasiblePairs(suitable, seen, req.priority, now)
              IN  \A i, j \in feasible :
                      (/\ suitable[i].workshop_id = task'[t].optimal_slot.workshop_id
                       /\ PairScore(suitable, seen, now, i) = PairScore(suitable, seen, now, j))
                      => IdRank(suitable[i].workshop_id) <= IdRank(suitable[j].workshop_id)
      ]_vars

(***************************************************************************)
(* Eligibility of the workshop of a new booking                            *)
(***************************************************************************)
WorkshopRow(workshop_id) ==
    CHOOSE w \in Range(workshop_table) : w.workshop_id = workshop_id

Eligible(w, service_type) ==
    \/ service_type \in w.specialties
    \/ "all" \in w.specialties
    \/ "general" \in w.specialties

\* C31: the workshop of every booking that a schedule call creates offers
\* the requested service type, or "all", or "general".
EligibleWorkshopBooked ==
    [][\A t \in TaskIds :
          (task[t].pc = "commit" /\ task'[t].pc = "done") =>
              LET b == bookings'[Len(bookings')]
              IN  /\ Len(bookings') = Len(bookings) + 1
                  /\ b.service_type = task[t].call.req.service_type
                  /\ Eligible(WorkshopRow(b.workshop_id), b.service_type)
      ]_vars

\* a booking made through the wildcard while a better rated workshop that
\* offers neither the service nor a wildcard is in the store
EligibleWorkshopWitness ==
    \E t \in TaskIds :
        /\ Booked(t)
        /\ task[t].call.req.service_type = "inspection"
        /\ "inspection" \notin WorkshopRow(task[t].result.workshop_id).specialties
        /\ \E w \in Range(workshop_table) :
               /\ ~Eligible(w, "inspection")
               /\ w.rating > WorkshopRow(task[t].result.workshop_id).rating

(***************************************************************************)
(* Failures of the stages after the analysis                               *)
(***************************************************************************)
PostAnalysisStages == {"booking", "booking_communication", "alert_communication"}

\* the stages of the event that were entered and raised
RaisedStages == Range(flow.started) \ Range(flow.finished)

\* C32: when the agent of a stage after the analysis raises on every call,
\* an event of a known vehicle whose reading has overall severity >= 0.6
\* is not given up: the stage that raised was entered, the result is a
\* completed one, and the alert stage is still entered.
LogAndContinue ==
    (/\ Done
     /\ faulty \in {{"planner"}, {"communicator"}}
     /\ flow.vehicle_id \in Vehicles
     /\ ReadingSeverity >= HighSeverity)
        => /\ RaisedStages \cap PostAnalysisStages # {}
           /\ flow.out.workflow_completed
           /\ "alert_communication" \in Range(flow.started)

(***************************************************************************)
(* Events while the workshops table is still empty                         *)
(***************************************************************************)
InitNoWorkshops ==
    /\ InitScheduler
    /\ workshop_table = <<>>
    /\ InitAnalyzer
    /\ InitTables
    /\ faulty \in FaultSets

SpecNoWorkshops == InitNoWorkshops /\ [][NextPipeline]_vars

\* C33: with no agent failing, an event of a known vehicle whose reading has
\* overall severity >= 0.6, while no workshop can be booked, ends in a
\* completed result
\* that holds the scheduler's error result under "booking"; the booking
\* confirmation is not entered and the alert stage is.
NoAvailabilityContinues ==
    (/\ Done
     /\ faulty = {}
     /\ flow.vehicle_id \in Vehicles
     /\ ReadingSeverity >= HighSeverity)
        => /\ flow.out.workflow_completed
           /\ "booking" \in DOMAIN flow.out.results
           /\ "error" \in DOMAIN flow.out.results["booking"]
           /\ "booking_id" \notin DOMAIN flow.out.results["booking"]
           /\ "booking_communication" \notin Range(flow.started)
           /\ "alert_communication" \in Range(flow.started)

(***************************************************************************)
(* PlannerAgent._cancel_booking with its error returns, called by a client *)
(* that keeps the result.  find_alternative only reads and is left out.    *)
(***************************************************************************)
\* the status test left out: every row that exists is cancelled
CancelOutcomeUnchecked(bk, booking_id) ==
    IF booking_id \notin 1..Len(bk)
    THEN [bookings |-> bk, result |-> [error |-> "Booking not found"]]
    ELSE [bookings |-> [bk EXCEPT ![booking_id].status = "cancelled"],
          result |-> [booking_id |-> booking_id, status |-> "cancelled"]]

CancelOutcome(bk, booking_id) ==
    IF booking_id \notin 1..Len(bk)
    THEN [bookings |-> bk, result |-> [error |-> "Booking not found"]]
    ELSE IF bk[booking_id].status \in {"completed", "cancelled"}
    THEN [bookings |-> bk, result |-> [error |-> "Cannot cancel booking"]]
    ELSE [bookings |-> [bk EXCEPT ![booking_id].status = "cancelled"],
          result |-> [booking_id |-> booking_id, status |-> "cancelled"]]

\* ids of the rows there can be, and one past them
CancelIds == 1..(MaxBookings + 1)

CancelRequest(t, booking_id) ==
    LET outcome == CancelOutcome(bookings, booking_id)
    IN  /\ task[t].pc = "idle"
        /\ bookings' = outcome.bookings
        /\ task' = [task EXCEPT ![t] =
                      [pc |-> "done",
                       call |-> [action |-> "cancel_booking", booking_id |-> booking_id],
                       result |-> outcome.result]]
        /\ UNCHANGED <<now, analyzerVars, pipeVars, workshop_table>>

NextCancel ==
    \/ \E req \in LifecycleRequests : ScheduleSearch(1, req)
    \/ ScheduleCommit(1)
    \/ \E t \in TaskIds : ScheduleReturn(t)
    \/ \E id \in 1..MaxBookings, u \in StatusUpdates : UpdateBooking(id, u)
    \/ \E id \in CancelIds : CancelRequest(2, id)

SpecCancel == Init /\ [][NextCancel]_vars

Cancels(t) ==
    /\ task[t].pc = "idle"
    /\ task'[t].pc = "done"
    /\ "action" \in DOMAIN task'[t].call

BlockingBookingsBlock ==
    [][\A t \in TaskIds :
          (Searches(t) /\ task'[t].pc = "commit") =>
              LET slot == task'[t].optimal_slot
              IN  \A i \in 1..Len(bookings) :
                      (/\ bookings[i].workshop_id = slot.workshop_id
                       /\ bookings[i].status \in {"scheduled", "confirmed", "in_progress"})
                      => ~HalfOpenOverlap(slot.slot_time, slot.estimated_duration,
                                          bookings[i])
      ]_vars

(***************************************************************************)
(* HealthMonitorAgent._predict_maintenance_needs and _analyze_metric_trend *)
(* over a history of thirty days.  A quotient is kept as num / den.        *)
(***************************************************************************)
NoPrediction == [days_num |-> 0, days_den |-> 0]

MinPredictionRows == 10
MinForecastValues == 3

MetricsToAnalyze == {"battery_soh", "battery_soc", "charge_cycles",
                     "motor_efficiency", "coolant_level"}

\* np.polyfit(x, y, 1)[0] for x = 0, 1, ..., as num / den with den > 0
PolyfitSlope(values) ==
    LET n == Len(values)
        x == [i \in 1..n |-> i - 1]
    IN  [num |-> n * SumSeq([i \in 1..n |-> x[i] * values[i]])
                    - SumSeq(x) * SumSeq(values),
         den |-> n * SumSeq([i \in 1..n |-> x[i] * x[i]]) - SumSeq(x) * SumSeq(x)]

\* the values of a metric that are not None, in the order of the rows
MetricValues(historical_data, metric) ==
    LET with_value == SelectSeq(historical_data,
                                LAMBDA data : data.metrics[metric] # NoValue)
    IN  [i \in 1..Len(with_value) |-> with_value[i].metrics[metric]]

\* _analyze_metric_trend; the confidence of a trend (R squared) is not kept
AnalyzeMetricTrend(historical_data, metric) ==
    LET values == MetricValues(historical_data, metric)
        trend == CalculateTrend(values)
        slope == PolyfitSlope(values)
        critical_threshold == CriticalThreshold(metric)
    IN  IF Len(values) < MinForecastValues
        THEN [metric |-> metric, prediction |-> NoPrediction, confidence |-> 0]
        ELSE [metric |-> metric,
              trend |-> trend,
              prediction |->
                  IF /\ trend.direction = "declining"
                     /\ Abs(slope.num) > 0
                     /\ critical_threshold # NoThreshold
                     /\ values[1] > critical_threshold
                  THEN [days_num |-> (values[1] - critical_threshold) * slope.den,
                        days_den |-> Abs(slope.num),
                        current_value |-> values[1],
                        critical_threshold |-> critical_threshold]
                  ELSE NoPrediction]

\* _predict_maintenance_needs, up to the list of predictions
PredictMaintenanceNeeds(vehicle_id) ==
    LET historical_data == GetHistoricalTelemetry(vehicle_telemetry, vehicle_id)
    IN  /\ verdict' =
              IF Len(historical_data) < MinPredictionRows
              THEN [kind |-> "predictions", vehicle_id |-> vehicle_id,
                    error |-> "Insufficient historical data for prediction"]
              ELSE [kind |-> "predictions", vehicle_id |-> vehicle_id,
                    analyses |-> [metric \in MetricsToAnalyze |->
                                     AnalyzeMetricTrend(historical_data, metric)]]
        /\ UNCHANGED <<reading, schedVars, pipeVars>>

MaxForecastRows == 10   \* rows of vehicle_telemetry

\* battery_soh 72.0 or 80.0 at the first reading, then one point down,
\* level, or one point up per reading
ForecastStarts == {720, 800}
ForecastSteps == {0 - 10, 0, 10}

\* nine readings of vehicle 1; battery_soh is logged in the readings of
\* logged, charge_cycles counts up when it is logged at all
History(start, step, logged, cycles) ==
    [i \in 1..(MaxForecastRows - 1) |->
        TelemetryRow(1, [battery_soh |-> IF i \in logged
                                         THEN start + (i - 1) * step ELSE NoValue,
                         charge_cycles |-> IF cycles THEN 1000 + 10 * i ELSE NoValue])]

Histories ==
    {History(start, step, logged, cycles) :
        start \in ForecastStarts, step \in ForecastSteps,
        logged \in {1..(MaxForecastRows - 1), {1, 2}}, cycles \in BOOLEAN}

\* battery_soh of the tenth reading: None, 69.0, 81.0
ForecastValues == {NoValue, 690, 810}

LogForecastReading(vehicle_id, value) ==
    LET out == AgentProcess("logger",
                            [vehicle_id |-> vehicle_id,
                             telemetry |-> [battery_soh |-> value]], Db, now)
    IN  /\ Len(vehicle_telemetry) < MaxForecastRows
        /\ vehicle_telemetry' = out.db.vehicle_telemetry
        /\ UNCHANGED <<schedVars, analyzerVars, flow, parked, loops, agent_actions,
                       vehicle_status, notifications, faulty>>

InitForecast ==
    /\ InitScheduler
    /\ workshop_table = Workshops
    /\ InitAnalyzer
    /\ flow = IdleFlow
    /\ parked = IdleFlow
    /\ loops = IdleLoops
    /\ agent_actions = <<>>
    /\ vehicle_telemetry \in Histories
    /\ vehicle_status = [v \in Vehicles |-> "operational"]
    /\ notifications = <<>>
    /\ faulty = {}

NextForecast ==
    \/ \E value \in ForecastValues : LogForecastReading(1, value)
    \/ \E v \in Vehicles : PredictMaintenanceNeeds(v)

SpecForecast == InitForecast /\ [][NextForecast]_vars

\* the values of a metric of a vehicle that are not None, oldest first
ChronologicalValues(vehicle_id, metric) ==
    MetricValues(SelectSeq(vehicle_telemetry, LAMBDA r : r.vehicle_id = vehicle_id),
                 metric)

\* C36: a prediction is reported only for a metric whose values decline
\* over time and that has a critical threshold; its time to critical is
\* (current value - critical threshold) / |slope| and is positive; with
\* fewer than three values there is no prediction and the confidence is 0.
ForecastOnlyWhenDeclining ==
    [][(/\ verdict' # verdict
        /\ verdict'.kind = "predictions"
        /\ "analyses" \in DOMAIN verdict')
       => \A metric \in MetricsToAnalyze :
              LET a == verdict'.analyses[metric]
                  h == ChronologicalValues(verdict'.vehicle_id, metric)
                  slope == PolyfitSlope(h)
              IN  /\ Len(h) < 3 => (a.prediction = NoPrediction /\ a.confidence = 0)
                  /\ a.prediction # NoPrediction =>
                        /\ CalculateTrend(h).direction = "declining"
                        /\ CriticalThreshold(metric) # NoThreshold
                        /\ a.prediction.days_num * Abs(slope.num)
                             = (h[Len(h)] - CriticalThreshold(metric)) * slope.den
                                  * a.prediction.days_den
                        /\ a.prediction.days_num > 0
                        /\ a.prediction.days_den > 0
      ]_vars

(***************************************************************************)
(* The task that runs process_vehicle_telemetry is cancelled while a stage *)
(* waits in process: CancelledError is raised at the await of              *)
(* execute_with_logging.  Where CancelledError is a BaseException no       *)
(* except clause of the two functions takes it; where it is an Exception   *)
(* (Python before 3.8) both do.                                            *)
(***************************************************************************)
CancelledErrorCaught == BOOLEAN

StageCancelled ==
    /\ flow.pc = "process"
    /\ \E caught \in CancelledErrorCaught :
          IF caught
          THEN /\ agent_actions' = [agent_actions EXCEPT ![flow.action_id] =
                                        FailedRow(@, "", now - flow.start_time)]
               /\ flow' = [pc |-> "returned", events |-> flow.events,
                           vehicle_id |-> flow.vehicle_id,
                           telemetry |-> flow.telemetry,
                           steps |-> flow.steps, results |-> flow.results,
                           action_id |-> flow.action_id,
                           start_time |-> flow.start_time,
                           started |-> flow.started,
                           finished |-> flow.finished,
                           out |-> FailedResult(flow.vehicle_id, "", flow.results)]
          ELSE /\ agent_actions' = agent_actions
               /\ flow' = [flow EXCEPT !.pc = "cancelled"]
    /\ UNCHANGED <<schedVars, analyzerVars, parked, loops, vehicle_telemetry, vehicle_status,
                   notifications, faulty>>

NextCancelled ==
    \/ Tick
    \/ \E v \in PipelineVehicles, r \in PipelineReadings : ProcessVehicleTelemetry(v, r)
    \/ LogAction
    \/ StageReturns
    \/ StageRaises
    \/ StageCancelled

SpecCancelled == InitFaulty /\ [][NextCancelled]_vars

\* C37: an audit row has status processing only while its
\* execute_with_logging call is running; once the call has ended, by
\* return, by exception or by cancellation, the row is completed or failed.
NoRowLeftProcessing ==
    \A i \in 1..Len(agent_actions) :
        agent_actions[i].status = "processing"
            => (flow.pc = "process" /\ flow.action_id = i)

(***************************************************************************)
(* PlannerAgent._update_booking with its error return, called by a client  *)
(* that keeps the result, with updates that name fields outside the        *)
(* allowed list.  The rows of the model keep no predicted_issue and no     *)
(* confidence_score.                                                       *)
(***************************************************************************)
UpdateOutcome(bk, booking_id, updates) ==
    IF booking_id \notin 1..Len(bk)
    THEN [bookings |-> bk, result |-> [error |-> "Booking not found"]]
    ELSE LET booking == ApplyUpdates(bk[booking_id], updates)
         IN  [bookings |-> [bk EXCEPT ![booking_id] = booking],
              result |-> [booking_id |-> booking_id,
                          updated_fields |-> DOMAIN updates \cap AllowedUpdates
                                                \cap DOMAIN bk[booking_id],
                          new_booking_slot |-> booking.booking_slot,
                          status |-> booking.status]]

FrameUpdates ==
    {[workshop_id |-> "ws_002", status |-> "confirmed"],
     [vehicle_id |-> 2, priority |-> "low"],
     [booking_slot |-> DayAtHour(0, 1, OpenHour), notes |-> "call first"],
     [service_type |-> "battery_service", estimated_duration |-> 90]}

UpdateRequest(t, booking_id, updates) ==
    LET outcome == UpdateOutcome(bookings, booking_id, updates)
    IN  /\ task[t].pc = "idle"
        /\ bookings' = outcome.bookings
        /\ task' = [task EXCEPT ![t] =
                      [pc |-> "done",
                       call |-> [action |-> "update_booking", booking_id |-> booking_id,
                                 updates |-> updates],
                       result |-> outcome.result]]
        /\ UNCHANGED <<now, analyzerVars, pipeVars, workshop_table>>

NextFrame ==
    \/ \E req \in LifecycleRequests : ScheduleSearch(1, req)
    \/ ScheduleCommit(1)
    \/ \E t \in TaskIds : ScheduleReturn(t)
    \/ \E id \in CancelIds, u \in FrameUpdates : UpdateRequest(2, id, u)

SpecFrame == Init /\ [][NextFrame]_vars

Updates(t) ==
    /\ task[t].pc = "idle"
    /\ task'[t].pc = "done"
    /\ "updates" \in DOMAIN task'[t].call

MaxStarts == 3

\* start(): every agent, then the coordinator, sets running and puts a new
\* loop task into _task
Start ==
    /\ loops.starts < MaxStarts
    /\ loops' = [running |-> [u \in Units |-> TRUE],
                 task |-> [u \in Units |-> loops.starts + 1],
                 alive |-> [u \in Units |-> loops.alive[u] \cup {loops.starts + 1}],
                 starts |-> loops.starts + 1]
    /\ UNCHANGED <<schedVars, analyzerVars, flow, parked, agent_actions,
                   vehicle_telemetry, vehicle_status, notifications, faulty>>

\* stop(): running = False, and the task that _task holds is cancelled and
\* awaited, for the coordinator and then for every agent
Stop ==
    /\ loops' = [loops EXCEPT
                    !.running = [u \in Units |-> FALSE],
                    !.alive = [u \in Units |-> loops.alive[u] \ {loops.task[u]}]]
    /\ UNCHANGED <<schedVars, analyzerVars, flow, parked, agent_actions,
                   vehicle_telemetry, vehicle_status, notifications, faulty>>

\* a loop wakes from its sleep and finds running false: while self.running
LoopEnds(u, id) ==
    /\ id \in loops.alive[u]
    /\ ~loops.running[u]
    /\ loops' = [loops EXCEPT !.alive[u] = @ \ {id}]
    /\ UNCHANGED <<schedVars, analyzerVars, flow, parked, agent_actions,
                   vehicle_telemetry, vehicle_status, notifications, faulty>>

NextLoops ==
    \/ Start
    \/ Stop
    \/ \E u \in Units, id \in 1..MaxStarts : LoopEnds(u, id)

SpecLoops == Init /\ [][NextLoops]_vars

\* C39: when stop() has completed, the coordinator and every agent have
\* running false and no loop task that a start() created is still alive,
\* whatever start() and stop() calls came before.
StopEndsEveryLoop ==
    [][Stop => \A u \in Units : ~loops'.running[u] /\ loops'.alive[u] = {}]_vars

====
